---- MODULE Spec2Model ----
(***************************************************************************)
(* git-air: recursive discovery of Git repositories and an automated       *)
(* stage / commit / push cycle on each of them (src/src/git-air.ts).       *)
(*                                                                         *)
(* The model follows the control flow of runGitTasks,                      *)
(* gitCommitAndPushWithDetails, gitCommitAndPush, attemptAutoFix,          *)
(* generateCommitMessageWithAI, tryFallbackAIs and askAIForSolution one    *)
(* await at a time: every execAsync call is one step whose result (stdout  *)
(* or the thrown error) is chosen by the environment.  Each invocation of  *)
(* runGitTasks owns an activation record, run[c]; main, the interval       *)
(* timer and the readline handler start invocations.                       *)
(*                                                                         *)
(* Text is a sequence of lines.  Substring tests of the source             *)
(* (String.prototype.includes) are answered from the table Occurs, which   *)
(* lists, for every line the environment can produce, which of the         *)
(* needles the source looks for occur in it.                               *)
(*                                                                         *)
(* A local is reset when its block is left or when it has gone stale, and  *)
(* cmds records only the commands that change a repository or talk to its  *)
(* remote.                                                                 *)
(*                                                                         *)
(* The repository classifier (findAllGitRepositories, checkIsMonorepo,     *)
(* determineRepoType, sortRepositoriesForProcessing) is not called by      *)
(* runGitTasks of src/src/git-air.ts; it is modelled as functions of the   *)
(* directory tree, and its caller, the advanced processing of              *)
(* src/unnamed/part_000, as a state machine of its own in adv.  A          *)
(* directory in disk.unreadable is one that fs.readdir fails on; its       *)
(* entries can still be reached by name.                                   *)
(***************************************************************************)
EXTENDS Integers, Sequences, FiniteSets, TLC

VARIABLES
    proc,           \* main(): "starting" while the first scan is awaited, then "listening"; "exited" after process.exit
    periodicTimer,  \* the global timer handle (0 is null)
    activeTimers,   \* interval timers of the event loop that have not been cleared
    run,            \* activation records of the runGitTasks invocations in flight
    faults,         \* whether child processes may fail in this run of the process
    disk,           \* the directory tree under the scan root
    consoleLog,     \* the global console.log: 0 is the logger of Node, c the wrapper that the call of
                    \* gitCommitAndPushWithDetails in slot c has installed
    adv             \* the repository classifier and the advanced processing: the call in progress

vars == <<proc, periodicTimer, activeTimers, run, faults, disk, consoleLog, adv>>

\* Bounds of the model.
MaxRepos == 2       \* repositories a discovery returns at most
MaxDepth == 3       \* segments of a path below the scan root at most
MaxInFlight == 2    \* invocations of runGitTasks the event loop holds at once
SchedRepos == 1     \* repositories a discovery returns at most while invocations overlap
FairRepos == 1      \* repositories a discovery returns at most where termination is examined
RemoteRepos == 1    \* repositories a discovery returns at most where remotes are examined
BrokenRepos == 1    \* repositories a discovery returns at most where git status may be unreadable
MaxEntries == 2     \* entries that a tree handed to the classifier is built from
MaxSort == 3        \* records in an array handed to sortRepositoriesForProcessing
MaxAdvanced == 2    \* repositories under the scan root of the advanced processing
QuitInFlight == 1   \* invocations in flight at once while the shutdown is examined

Cycles == 1..MaxInFlight

-----------------------------------------------------------------------------
(* Text *)

Null == <<"\\null">>

IsBlank(line) ==
    line \in {"", " "}

RECURSIVE TrimStart(_)
TrimStart(text) ==
    IF text # <<>> /\ IsBlank(Head(text)) THEN TrimStart(Tail(text)) ELSE text

RECURSIVE TrimEnd(_)
TrimEnd(text) ==
    IF text # <<>> /\ IsBlank(text[Len(text)])
    THEN TrimEnd(SubSeq(text, 1, Len(text) - 1))
    ELSE text

\* String.prototype.trim
Trim(text) ==
    TrimEnd(TrimStart(text))

\* s.split('\n')[0]
FirstLine(text) ==
    IF text = <<>> THEN <<>> ELSE <<Head(text)>>

\* JavaScript truthiness of a string | null
Truthy(text) ==
    text # Null /\ text # <<>>

ToLowerCaseLine(line) ==
    CASE line = "ERROR: Repository not found." -> "error: repository not found."
      [] line = "Host key verification failed." -> "host key verification failed."
      [] line = "git@github.com: Permission denied (publickey)." -> "git@github.com: permission denied (publickey)."
      [] line = "Please make sure you have the correct access rights" -> "please make sure you have the correct access rights"
      [] line = "Run git pull, then push again." -> "run git pull, then push again."
      [] line = "Command failed: git push" -> "command failed: git push"
      [] line = "Command failed: git branch --show-current" -> "command failed: git branch --show-current"
      [] line = "Command failed: git push -u origin main" -> "command failed: git push -u origin main"
      [] line = "Command failed: git push -u origin non-fast-forward" -> "command failed: git push -u origin non-fast-forward"
      [] OTHER -> line

\* String.prototype.toLowerCase
ToLowerCase(text) ==
    [i \in 1..Len(text) |-> ToLowerCaseLine(text[i])]

\* The needles of the source that occur in a line (case-sensitively).
Occurs(line) ==
    CASE line = "## main...origin/main [ahead 1]" -> {"ahead"}
      [] line = "## go-ahead...origin/go-ahead" -> {"ahead"}
      [] line = " ! [rejected] main -> main (fetch first)" -> {"fetch first"}
      [] line = " ! [rejected] main -> main (non-fast-forward)" -> {"non-fast-forward"}
      [] line = "command failed: git push -u origin non-fast-forward" -> {"non-fast-forward"}
      [] line = "Command failed: git push -u origin non-fast-forward" -> {"non-fast-forward"}
      [] line = "error: repository not found." -> {"repository not found"}
      [] line = "host key verification failed." -> {"host key verification failed"}
      [] line = "Host key verification failed." -> {"Host key verification failed"}
      [] line = "git@github.com: permission denied (publickey)." -> {"permission denied"}
      [] line = "please make sure you have the correct access rights" -> {"access rights"}
      [] line = "Please make sure you have the correct access rights" -> {"access rights"}
      [] line = "nothing to commit, working tree clean" -> {"nothing to commit"}
      [] line = "Run git pull, then push again." -> {"git pull"}
      [] line = "run git pull, then push again." -> {"git pull"}
      [] line = "  - PUSH FAILED: " -> {"PUSH FAILED"}
      [] line = "  - Repository has unpushed commits!" -> {"unpushed commits"}
      [] line = "  - Found unpushed commits, pushing..." -> {"unpushed commits"}
      [] line = "  - Note: SSH key verification failed (manual intervention required)" ->
                {"SSH key verification failed"}
      [] line = "  - Error in commit/push: " -> {"Error in commit/push"}
      [] OTHER -> {}

\* String.prototype.includes
Includes(text, needle) ==
    \E i \in 1..Len(text) : needle \in Occurs(text[i])

-----------------------------------------------------------------------------
(* What the child processes can answer *)

Ok(out) == [ok |-> TRUE, stdout |-> out, message |-> <<>>]
Err(msg, out) == [ok |-> FALSE, stdout |-> out, message |-> msg]

\* git status --porcelain
StatusOutputs ==
    { <<>>, <<" M src/app.ts", "?? notes.txt">> }

\* git status -b --porcelain: in sync, ahead of the upstream, in sync on a branch named go-ahead
BranchOutputs ==
    { <<"## main...origin/main">>,
      <<"## main...origin/main [ahead 1]">>,
      <<"## go-ahead...origin/go-ahead">> }

\* What git itself says about the branch: the "[ahead N]" marker of the header line.
AheadOfUpstream(text) ==
    \E i \in 1..Len(text) : text[i] = "## main...origin/main [ahead 1]"

StatusResults ==
    { Ok(o) : o \in StatusOutputs } \cup { Err(<<"Command failed: git status --porcelain">>, <<>>) }

BranchResults ==
    { Ok(o) : o \in BranchOutputs } \cup { Err(<<"Command failed: git status -b --porcelain">>, <<>>) }

\* git add . and git pull: only success or failure matter
PlainResults ==
    { Ok(<<>>), Err(<<"Command failed">>, <<>>) }

\* git commit: done; nothing to commit (git says so on stdout); the phrase inside the
\* error message; a failing hook
CommitResults ==
    { Ok(<<"[main 1a2b3c4] commit">>),
      Err(<<"Command failed: git commit">>, <<"nothing to commit, working tree clean">>),
      Err(<<"Command failed: git commit", "nothing to commit, working tree clean">>, <<>>),
      Err(<<"Command failed: git commit", "pre-commit hook failed">>, <<>>) }

\* stderr of a failing git push -u origin <branch>, and of the push retried after a fix
PushStderr ==
    { <<"fatal: The current branch has no upstream branch.">>,
      <<" ! [rejected] main -> main (fetch first)">>,
      <<" ! [rejected] main -> main (non-fast-forward)">>,
      <<"ERROR: Repository not found.", "Please make sure you have the correct access rights">>,
      <<"Host key verification failed.">>,
      <<"git@github.com: Permission denied (publickey).">>,
      <<"fatal: unable to access the remote: Could not resolve host">> }

NoUpstream(message) ==
    \E i \in 1..Len(message) : message[i] = "fatal: The current branch has no upstream branch."

\* child_process.exec rejects with message "Command failed: <command>\n<stderr>"
ExecError(command, stderr) ==
    Err(<<"Command failed: " \o command>> \o stderr, <<>>)

PushResults(command) ==
    { Ok(<<>>) } \cup { ExecError(command, e) : e \in PushStderr }

\* The error of the first, plain git push is never read: two kinds stand for all.
PlainPushResults ==
    { Ok(<<>>),
      ExecError("git push", <<"fatal: The current branch has no upstream branch.">>),
      ExecError("git push", <<" ! [rejected] main -> main (fetch first)">>) }

\* git branch --show-current
BranchNames ==
    { "main", "non-fast-forward" }

BranchNameResults ==
    { Ok(<<b>>) : b \in BranchNames } \cup { ExecError("git branch --show-current", <<>>) }

\* stdout of a commit-message or problem-solving oracle
OracleOutputs ==
    { <<>>, <<"", " ">>, <<"feat: add notes">>, <<"", "feat: add notes", "", "The change adds a notes file.">> }

OracleResults ==
    { Ok(o) : o \in OracleOutputs } \cup { Err(<<"Command failed">>, <<>>) }

\* stdout of a problem-solving oracle: also the advice to pull
SolutionOutputs ==
    OracleOutputs \cup { <<"Run git pull, then push again.">> }

SolutionResults ==
    { Ok(o) : o \in SolutionOutputs } \cup { Err(<<"Command failed">>, <<>>) }

\* git diff --cached --stat
DiffResults ==
    { Ok(<<>>), Ok(<<" notes.txt | 1 +">>), Err(<<"Command failed: git diff --cached --stat">>, <<>>) }

\* new Date().toISOString()
Instants ==
    { "2024-05-01T10:00:00.000Z", "2024-05-01T10:05:00.000Z" }

-----------------------------------------------------------------------------
(* Activation records *)

NoResult == Ok(<<>>)

\* The locals of one pass of the for loop of runGitTasks and of the calls it makes.
Locals ==
    [ gitStatus |-> Null, branchStatus |-> Null,           \* runGitTasks
      statusOutput |-> Null, statusBranch |-> Null,        \* gitCommitAndPush
      hasUnpushedCommits |-> FALSE,
      aiCommitMessage |-> Null, commitMessage |-> Null,
      commitError |-> NoResult, pushError |-> NoResult,
      branch |-> Null, errorMsg |-> Null, fixAttempted |-> FALSE,
      aiSolution |-> Null,
      tried |-> <<>>,                                      \* commands the AI adapters have started
      oracleOut |-> Null,                                  \* stdout of the last oracle that ran
      lastError |-> "", originalLog |-> 0,                 \* gitCommitAndPushWithDetails
      ai |-> 0 ]                                           \* index of the for loops over the AI CLIs

IdleFrame ==
    [ pc |-> "idle", repositories |-> <<>>, idx |-> 0,
      successCount |-> 0, noChangesCount |-> 0, failureCount |-> 0,
      failedRepos |-> <<>>,
      outcomes |-> <<>>,      \* the result line printed for each repository, in order
      cmds |-> <<>>,          \* git add / commit / push / pull run for the repository at hand (or just finished)
      loc |-> Locals ]

\* runGitTasks runs synchronously up to its first await, the discovery.
NewFrame ==
    [IdleFrame EXCEPT !.pc = "discover"]

\* const fallbackAIs = [...] of tryFallbackAIs
FallbackAIs ==
    << [name |-> "gemini-cli", command |-> "gemini commit"],
       [name |-> "claude", command |-> "claude commit"],
       [name |-> "codex", command |-> "codex commit"] >>

\* const aiClis = [...] of askAIForSolution
AiClis ==
    << [name |-> "gemini", command |-> "gemini"],
       [name |-> "claude", command |-> "claude"],
       [name |-> "codex", command |-> "codex"] >>

\* The command of the primary commit-message oracle.
AiAgent == "npx ts-node ai-commit-agent.ts --man"

\* A child process of one of the AI loops is started.
Try(f, command) ==
    [f EXCEPT !.loc.tried = Append(@, command)]

Exec(f, command) ==
    [f EXCEPT !.cmds = Append(@, command)]

\* The if chain of the console.log that gitCommitAndPushWithDetails installs: the first
\* needle found in the message decides, a message without a needle leaves lastError.
Capture(lastError, message) ==
    IF Includes(message, "PUSH FAILED") THEN "Push failed to remote repository"
    ELSE IF Includes(message, "repository not found") THEN "Remote repository not found"
    ELSE IF Includes(message, "SSH key verification failed") THEN "SSH key verification failed"
    ELSE IF Includes(message, "Host key verification failed") THEN "SSH host key verification failed"
    ELSE IF Includes(message, "unpushed commits") THEN "Repository has unpushed commits"
    ELSE IF Includes(message, "Error in commit/push") THEN "Failed to commit changes"
    ELSE lastError

\* console.log(message) while gitCommitAndPush runs.  A template literal is the text of its
\* fixed prefix followed by the lines of the value it interpolates.
Log(f, message) ==
    [f EXCEPT !.loc.lastError = Capture(@, message)]

\* error: result === false ? lastError || 'Unknown error' : undefined
DetailsError(f, result) ==
    IF result = "false"
    THEN IF f.loc.lastError # "" THEN f.loc.lastError ELSE "Unknown error"
    ELSE ""

\* path.basename(repoPath)
Basename(repoPath) ==
    repoPath[Len(repoPath)]

\* path.relative(currentDir, repoPath)
Relative(repoPath) ==
    Tail(repoPath)

HasUncommitted(f) ==
    Len(Trim(f.loc.gitStatus)) > 0

HasUnpushed(f) ==
    Includes(f.loc.branchStatus, "ahead")

HasUncommittedChanges(f) ==
    Len(Trim(f.loc.statusOutput)) > 0

-----------------------------------------------------------------------------
(* runGitTasks: the tally and the loop *)

\* A loop that gives up after a failed repository: what failure isolation excludes.
NextRepoUnlessFailed(f) ==
    IF f.idx < Len(f.repositories) /\ f.outcomes[Len(f.outcomes)] # "Failure"
    THEN [f EXCEPT !.idx = @ + 1, !.pc = "rgt_status"]
    ELSE [f EXCEPT !.pc = "summary"]

\* The for loop moves on; after the last repository the summary is printed.
NextRepo(f) ==
    IF f.idx < Len(f.repositories)
    THEN [f EXCEPT !.idx = @ + 1, !.pc = "rgt_status"]
    ELSE [f EXCEPT !.pc = "summary"]

\* if (!hasUncommitted && !hasUnpushed) { noChangesCount++; continue; }
Skip(f) ==
    NextRepo([f EXCEPT !.noChangesCount = @ + 1,
                       !.outcomes = Append(@, "NoChanges")])

\* A tally that counts a failure without listing the repository.
TallyWithoutList(f, result) ==
    IF result = "true"
    THEN [f EXCEPT !.successCount = @ + 1, !.outcomes = Append(@, "Success")]
    ELSE IF result = "no-changes"
    THEN [f EXCEPT !.noChangesCount = @ + 1, !.outcomes = Append(@, "NoChanges")]
    ELSE [f EXCEPT !.failureCount = @ + 1, !.outcomes = Append(@, "Failure")]

\* The branches on result.status after gitCommitAndPushWithDetails has returned.
Tally(f, result) ==
    IF result = "true"
    THEN [f EXCEPT !.successCount = @ + 1, !.outcomes = Append(@, "Success")]
    ELSE IF result = "no-changes"
    THEN [f EXCEPT !.noChangesCount = @ + 1, !.outcomes = Append(@, "NoChanges")]
    ELSE [f EXCEPT !.failureCount = @ + 1,
                   !.failedRepos = Append(@, [name |-> Basename(f.repositories[f.idx]),
                                              path |-> Relative(f.repositories[f.idx]),
                                              issue |-> IF DetailsError(f, result) # ""
                                                        THEN DetailsError(f, result)
                                                        ELSE "Unknown error"]),
                   !.outcomes = Append(@, "Failure")]

\* gitCommitAndPush returns result; gitCommitAndPushWithDetails hands it on: the tally,
\* then the loop.  The frames are bound as set elements, so that each is computed once.
Return(f, result) ==
    CHOOSE next \in { NextRepo(tallied) : tallied \in { Tally(g, result) : g \in {f} } } : TRUE

\* A summary that judges by the repositories that were processed with success.
SummaryBySuccess(f) ==
    [ synchronized |-> f.successCount = 0,
      attention |-> f.successCount > 0,
      entries |-> IF f.successCount > 0 THEN f.failedRepos ELSE <<>> ]

\* What the summary block prints: the line "fully synchronized", or the line "REQUIRES
\* ATTENTION" followed by the failedRepos.forEach lines (name, Path, Issue).
Summary(f) ==
    [ synchronized |-> ~(f.failureCount > 0),
      attention |-> f.failureCount > 0,
      entries |-> IF f.failureCount > 0 THEN f.failedRepos ELSE <<>> ]

\* gitCommitAndPushWithDetails calls gitCommitAndPush, which runs up to its first await;
\* the block of the status lines is left.
EnterDetails(f) ==
    [f EXCEPT !.loc = [Locals EXCEPT !.originalLog = consoleLog], !.pc = "gcp_status"]

\* After the status lines have been printed.
AfterInspect(f) ==
    IF ~HasUncommitted(f) /\ ~HasUnpushed(f) THEN Skip(f) ELSE EnterDetails(f)

-----------------------------------------------------------------------------
(* gitCommitAndPush *)

\* A decision that pushes without staging and committing.
AfterStatusBranchPushOnly(f) ==
    IF ~HasUncommittedChanges(f) /\ ~f.loc.hasUnpushedCommits
    THEN Return(f, "no-changes")
    ELSE [f EXCEPT !.pc = "gcp_push"]

\* After both status reads.
AfterStatusBranch(f) ==
    IF ~HasUncommittedChanges(f) /\ ~f.loc.hasUnpushedCommits
    THEN Return(f, "no-changes")
    ELSE IF HasUncommittedChanges(f)
    THEN [f EXCEPT !.pc = "gcp_add"]
    ELSE [Log(f, <<"  - Found unpushed commits, pushing...">>) EXCEPT !.pc = "gcp_push"]

\* A commit message without the fallback.
CommitMessageOfOracle(aiCommitMessage, now) ==
    aiCommitMessage

\* const commitMessage = aiCommitMessage || `Auto-commit by git-air at ${new Date().toISOString()}`
CommitMessageFor(aiCommitMessage, now) ==
    IF Truthy(aiCommitMessage) THEN aiCommitMessage ELSE <<"Auto-commit by git-air at " \o now>>

\* generateCommitMessageWithAI has returned message.
OracleReturn(f, message) ==
    [f EXCEPT !.loc.aiCommitMessage = message, !.loc.ai = 0, !.pc = "gcp_commit"]

\* askAIForSolution starts its loop over the AI CLIs.
AskStart(f) ==
    [f EXCEPT !.loc.ai = 1, !.pc = "ask_which"]

\* A recovery that counts a push as done when the oracle has an answer.
AskReturnBySolution(f, solution) ==
    Return([f EXCEPT !.loc.aiSolution = solution],
           IF Truthy(solution) THEN "true" ELSE "false")

\* askAIForSolution has returned; the push failure is final.
AskReturn(f, solution) ==
    Return(Log([f EXCEPT !.loc.aiSolution = solution],
               IF Truthy(solution)
               THEN <<"  - AI suggests: ">> \o solution
               ELSE <<"  - Note: Manual fix required - check remote repository configuration">>),
           "false")

AskNext(f) ==
    IF f.loc.ai < Len(AiClis)
    THEN [f EXCEPT !.loc.ai = @ + 1, !.pc = "ask_which"]
    ELSE AskReturn([f EXCEPT !.loc.ai = 0], Null)

\* A recovery that pulls again when the fix did not work.
FixDoneOrPullAgain(f, fixAttempted) ==
    IF fixAttempted
    THEN [f EXCEPT !.loc.fixAttempted = TRUE, !.pc = "gcp_retryPush"]
    ELSE [f EXCEPT !.pc = "fix_pullMerge"]

\* attemptAutoFix has returned fixAttempted.
FixDone(f, fixAttempted) ==
    IF fixAttempted
    THEN [Log(f, <<"  - Auto-fix attempted, checking result...">>)
             EXCEPT !.loc.fixAttempted = TRUE, !.pc = "gcp_retryPush"]
    ELSE AskStart(f)

\* An attemptAutoFix that pulls whatever the error says.
AttemptAutoFixByPull(f, errorMessage, aiSuggestion) ==
    [f EXCEPT !.pc = "fix_pullMerge"]

\* attemptAutoFix up to its first await or its return.
AttemptAutoFix(f, errorMessage, aiSuggestion) ==
    LET error == ToLowerCase(errorMessage)
        suggestion == ToLowerCase(aiSuggestion)
    IN  IF Includes(error, "fetch first") \/ Includes(error, "non-fast-forward")
        THEN [Log(f, <<"  - Attempting git pull to resolve conflicts...">>)
                 EXCEPT !.pc = "fix_pullMerge"]
        ELSE IF Includes(error, "repository not found") /\ Includes(suggestion, "create")
        THEN FixDone(Log(f, <<"  - Note: Repository needs to be created on remote (cannot auto-fix)">>),
                     FALSE)
        ELSE IF Includes(error, "host key verification failed")
        THEN FixDone(Log(f, <<"  - Note: SSH key verification failed (manual intervention required)">>),
                     FALSE)
        ELSE IF Includes(error, "permission denied") \/ Includes(error, "access rights")
        THEN FixDone(Log(f, <<"  - Note: Access rights issue (manual intervention required)">>),
                     FALSE)
        ELSE IF Includes(suggestion, "git pull") /\ ~Includes(error, "repository not found")
        THEN [Log(f, <<"  - Following AI suggestion: git pull">>) EXCEPT !.pc = "fix_pullAI"]
        ELSE FixDone(Log(f, <<"  - Note: No auto-fix available for this issue">>), FALSE)

\* A recovery that sets the upstream once more.
RecoverByUpstream(f, upstreamError) ==
    [f EXCEPT !.loc.errorMsg = upstreamError.message, !.pc = "gcp_branch"]

\* catch (upstreamError): the recovery is entered with an empty AI suggestion.
Recover(f, upstreamError) ==
    AttemptAutoFix([Log(Log(f, <<"  - PUSH FAILED: ">> \o upstreamError.message),
                        <<"  - Repository has unpushed commits!">>)
                       EXCEPT !.loc.errorMsg = upstreamError.message],
                   upstreamError.message, <<>>)

\* A catch clause of generateCommitMessageWithAI that lets the error go.
FallbackStartRaises(f) ==
    [f EXCEPT !.pc = "uncaught"]

\* tryFallbackAIs is entered.
FallbackStart(f) ==
    [f EXCEPT !.pc = "fb_diff"]

FallbackNext(f) ==
    IF f.loc.ai < Len(FallbackAIs)
    THEN [f EXCEPT !.loc.ai = @ + 1, !.pc = "fb_which"]
    ELSE OracleReturn(f, Null)

-----------------------------------------------------------------------------
(* Exceptions: the catch clause that receives an error thrown at a site *)

\* gitCommitAndPush without its outer try/catch.
HandlerWithoutOuterCatch(site) ==
    CASE site \in {"rgt_status", "rgt_statusB"} -> "rgt_catch"
      [] site = "gcp_statusB" -> "gcp_ignore"
      [] site = "gcp_commit" -> "gcp_commit"
      [] site = "gcp_push" -> "gcp_push"
      [] site \in {"gcp_branch", "gcp_pushU"} -> "gcp_upstream"
      [] site = "fix_pullMerge" -> "fix_merge"
      [] site = "fix_pullRebase" -> "fix_rebase"
      [] site = "fix_pullAI" -> "fix_outer"
      [] site = "gcp_retryPush" -> "gcp_retry"
      [] site \in {"oa_status", "oa_diff"} -> "oa_outer"
      [] site = "oa_agent" -> "oa_inner"
      [] site = "fb_diff" -> "fb_outer"
      [] site \in {"fb_which", "fb_run"} -> "fb_loop"
      [] site \in {"ask_which", "ask_run"} -> "ask_loop"
      [] OTHER -> "none"

Handler(site) ==
    CASE site \in {"rgt_status", "rgt_statusB"} -> "rgt_catch"
      [] site \in {"gcp_status", "gcp_add", "gcp_commit_rethrow"} -> "gcp_outer"
      [] site = "gcp_statusB" -> "gcp_ignore"
      [] site = "gcp_commit" -> "gcp_commit"
      [] site = "gcp_push" -> "gcp_push"
      [] site \in {"gcp_branch", "gcp_pushU"} -> "gcp_upstream"
      [] site = "fix_pullMerge" -> "fix_merge"
      [] site = "fix_pullRebase" -> "fix_rebase"
      [] site = "fix_pullAI" -> "fix_outer"
      [] site = "gcp_retryPush" -> "gcp_retry"
      [] site \in {"oa_status", "oa_diff"} -> "oa_outer"
      [] site = "oa_agent" -> "oa_inner"
      [] site = "fb_diff" -> "fb_outer"
      [] site \in {"fb_which", "fb_run"} -> "fb_loop"
      [] site \in {"ask_which", "ask_run"} -> "ask_loop"
      [] OTHER -> "none"

RECURSIVE Catch(_, _, _)

\* A catch (statusError) that moves on to the next repository.
StatusUnreadSkipped(f) ==
    Skip(f)

\* catch (statusError) of runGitTasks: the error is printed, and the loop body goes on
\* with the call of gitCommitAndPushWithDetails.
StatusUnread(f) ==
    EnterDetails(f)

\* A catch clause of the commit that lets the push follow.
CommitFailedThenPush(f, error) ==
    [f EXCEPT !.loc.commitError = error, !.pc = "gcp_push"]

\* catch (error) of git commit: "nothing to commit" returns false, any other error is
\* thrown again.
CommitFailed(f, error) ==
    IF Includes(error.message, "nothing to commit")
    THEN Return([f EXCEPT !.loc.commitError = error], "false")
    ELSE Catch([f EXCEPT !.loc.commitError = error], "gcp_commit_rethrow", error)

Catch(f, site, e) ==
    LET h == Handler(site)
    IN  CASE h = "rgt_catch" -> StatusUnread(f)
          [] h = "gcp_outer" -> Return(Log(f, <<"  - Error in commit/push: ">> \o e.message), "false")
          [] h = "gcp_ignore" -> AfterStatusBranch(f)
          [] h = "gcp_commit" -> CommitFailed(f, e)
          [] h = "gcp_push" -> [f EXCEPT !.loc.pushError = e, !.pc = "gcp_branch"]
          [] h = "gcp_upstream" -> Recover(f, e)
          [] h = "fix_merge" -> [Log(f, <<"  - Merge failed, trying rebase...">>)
                                    EXCEPT !.pc = "fix_pullRebase"]
          [] h = "fix_rebase" -> FixDone(Log(f, <<"  - Both merge and rebase failed">>), FALSE)
          [] h = "fix_outer" -> FixDone(Log(f, <<"  - Auto-fix attempt failed: ">> \o e.message), FALSE)
          [] h = "gcp_retry" -> AskStart(Log(f, <<"  - Auto-fix failed, manual intervention needed">>))
          [] h = "oa_outer" -> FallbackStart(f)
          [] h = "oa_inner" -> FallbackStart(f)
          [] h = "fb_outer" -> OracleReturn(f, Null)
          [] h = "fb_loop" -> FallbackNext(f)
          [] h = "ask_loop" -> AskNext(f)
          [] OTHER -> [f EXCEPT !.pc = "uncaught"]

-----------------------------------------------------------------------------
(* The directory tree under the scan root, and findAllGitRepositoriesSimple *)

\* ['node_modules', 'vendor', '.vscode', '.idea']
Denylist == {"node_modules", "vendor", ".vscode", ".idea"}

\* The entry names of the trees.
Names == {".git", "vendor", "app", "lib"}

\* The name of the scan root, process.cwd().
RootNames == {"work", ".git"}

\* fs.readdir promises no order: the entries of every directory come in one of these.
Orders ==
    { <<".git", ".gitmodules", "app", "lib", "vendor">>, <<"app", "lib", "vendor", ".gitmodules", ".git">> }

\* A path below the scan root is the sequence of its segments; <<>> is the scan root.
IsPrefix(p, q) ==
    Len(p) <= Len(q) /\ SubSeq(q, 1, Len(p)) = p

\* The tree that holds the entries of leaves (a function from paths to "dir" or "file")
\* and the directories that lead to them.
Tree(leaves, root, unreadable, order) ==
    LET paths == UNION { { SubSeq(q, 1, n) : n \in 1..Len(q) } : q \in DOMAIN leaves }
    IN  [ root |-> root,
          kind |-> [ p \in paths |->
                       IF \E q \in DOMAIN leaves : q # p /\ IsPrefix(p, q) THEN "dir" ELSE leaves[p] ],
          unreadable |-> unreadable,
          order |-> order,
          remoteless |-> {},       \* the repositories (paths below the root) without a remote
          broken |-> {} ]          \* the repositories in which git status fails

DirsOf(d) ==
    {<<>>} \cup { p \in DOMAIN d.kind : d.kind[p] = "dir" }

\* n repositories, each nested in the one before, the first at the scan root.
Nested(n, order) ==
    Tree([ p \in { [i \in 1..k |-> "app"] \o <<".git">> : k \in 0..(n - 1) } |-> "dir" ],
         "work", {}, order)

\* The tree with no remote configured in the repositories of the set.
WithoutRemote(d, repos) ==
    [d EXCEPT !.remoteless = repos]

\* The tree in which git status fails in the repositories of the set.
WithBroken(d, repos) ==
    [d EXCEPT !.broken = repos]

\* path.join(dir, entry.name), with the scan root as first segment
Join(dir, name) ==
    Append(dir, name)

\* The part of an absolute path below the scan root.
Below(dir) ==
    Tail(dir)

\* fs.readdir(dir, { withFileTypes: true })
ReadDir(d, dir) ==
    LET names == SelectSeq(d.order, LAMBDA n : Append(Below(dir), n) \in DOMAIN d.kind)
    IN  [ i \in 1..Len(names) |->
            [ name |-> names[i], isDirectory |-> d.kind[Append(Below(dir), names[i])] = "dir" ] ]

\* A walker without the denylist.
DenylistedNever(name) ==
    FALSE

Denylisted(name) ==
    name \in Denylist

\* A walker that keeps only the first repository it finds.
PushFirstOnly(acc, dir) ==
    IF acc.repositories = <<>> THEN [acc EXCEPT !.repositories = Append(@, dir)] ELSE acc

\* repositories.push(dir)
Push(acc, dir) ==
    [acc EXCEPT !.repositories = Append(@, dir)]

\* A catch clause that lets the read error go.
Rethrown(acc) ==
    [acc EXCEPT !.error = TRUE]

\* catch (error) { }: the directory that cannot be read is skipped.
Skipped(acc) ==
    acc

RECURSIVE WalkDirectory(_, _, _)
RECURSIVE WalkEntries(_, _, _, _)

\* for (const entry of entries); an error thrown in the loop would end it.
WalkEntries(d, dir, entries, acc) ==
    IF entries = <<>> \/ acc.error
    THEN acc
    ELSE LET entry == Head(entries)
             rest == Tail(entries)
         IN  IF ~entry.isDirectory
             THEN WalkEntries(d, dir, rest, acc)
             ELSE IF Denylisted(entry.name)
             THEN WalkEntries(d, dir, rest, acc)
             ELSE IF entry.name = ".git"
             THEN WalkEntries(d, dir, rest, Push(acc, dir))
             ELSE WalkEntries(d, dir, rest, WalkDirectory(d, Join(dir, entry.name), acc))

\* acc.read collects the directories whose entries have been read.
WalkDirectory(d, dir, acc) ==
    IF Below(dir) \in d.unreadable
    THEN Skipped(acc)
    ELSE WalkEntries(d, dir, ReadDir(d, dir), [acc EXCEPT !.read = @ \cup {dir}])

FindAllGitRepositoriesSimple(d) ==
    WalkDirectory(d, <<d.root>>, [repositories |-> <<>>, read |-> {}, error |-> FALSE])

-----------------------------------------------------------------------------
(* The repository classifier: findAllGitRepositories, checkIsMonorepo,      *)
(* determineRepoType, sortRepositoriesForProcessing                         *)

\* No call of the classifier or of the advanced processing is in progress.
NoCall ==
    [ pc |-> "idle" ]

\* fs.access(p) resolves when the entry exists.
Access(d, p) ==
    Below(p) \in DOMAIN d.kind

\* (await fs.stat(p)).isFile(); fs.stat throws when there is no entry.
StatIsFile(d, p) ==
    Access(d, p) /\ d.kind[Below(p)] = "file"

\* A check that looks for .gitmodules only.
CheckIsMonorepoByGitmodules(d, repoPath) ==
    Access(d, Join(repoPath, ".gitmodules"))

\* checkIsMonorepo: .gitmodules, else the first child directory other than .git that has
\* an entry .git; a directory that cannot be read has no such child.
CheckIsMonorepo(d, repoPath) ==
    IF Access(d, Join(repoPath, ".gitmodules"))
    THEN TRUE
    ELSE IF Below(repoPath) \in d.unreadable
    THEN FALSE
    ELSE LET entries == ReadDir(d, repoPath)
         IN  \E i \in 1..Len(entries) :
                /\ entries[i].isDirectory
                /\ entries[i].name # ".git"
                /\ Access(d, Join(Join(repoPath, entries[i].name), ".git"))

\* A classification that does not look at the kind of the .git entry.
DetermineRepoTypeByRoot(d, repoPath, rootDir) ==
    IF repoPath = rootDir THEN "main" ELSE "nested"

\* determineRepoType
DetermineRepoType(d, repoPath, rootDir) ==
    IF repoPath = rootDir
    THEN "main"
    ELSE IF StatIsFile(d, Join(repoPath, ".git"))
    THEN "submodule"
    ELSE "nested"

\* ['node_modules', 'vendor', '.vscode', '.idea', 'dist', 'build']
DenylistAdvanced == {"node_modules", "vendor", ".vscode", ".idea", "dist", "build"}

RECURSIVE WalkDirectoryAdvanced(_, _, _)
RECURSIVE WalkEntriesAdvanced(_, _, _, _)

\* for (const entry of entries) of findAllGitRepositories
WalkEntriesAdvanced(d, dir, entries, repositories) ==
    IF entries = <<>>
    THEN repositories
    ELSE LET entry == Head(entries)
             rest == Tail(entries)
         IN  IF ~entry.isDirectory
             THEN WalkEntriesAdvanced(d, dir, rest, repositories)
             ELSE IF entry.name \in DenylistAdvanced
             THEN WalkEntriesAdvanced(d, dir, rest, repositories)
             ELSE IF entry.name = ".git"
             THEN WalkEntriesAdvanced(d, dir, rest,
                     Append(repositories,
                            [ path |-> dir,
                              isMonorepo |-> CheckIsMonorepo(d, dir),
                              type |-> DetermineRepoType(d, dir, <<d.root>>) ]))
             ELSE WalkEntriesAdvanced(d, dir, rest,
                     WalkDirectoryAdvanced(d, Join(dir, entry.name), repositories))

\* walkDirectory of findAllGitRepositories: a directory that cannot be read is skipped.
WalkDirectoryAdvanced(d, dir, repositories) ==
    IF Below(dir) \in d.unreadable
    THEN repositories
    ELSE WalkEntriesAdvanced(d, dir, ReadDir(d, dir), repositories)

FindAllGitRepositories(d) ==
    WalkDirectoryAdvanced(d, <<d.root>>, <<>>)

\* A comparator that only puts the submodules first.
CompareSubmodulesFirst(a, b) ==
    IF a.type = "submodule" /\ b.type # "submodule" THEN -1
    ELSE IF b.type = "submodule" /\ a.type # "submodule" THEN 1
    ELSE 0

\* The comparator of sortRepositoriesForProcessing
Compare(a, b) ==
    IF a.type = "submodule" /\ b.type # "submodule" THEN -1
    ELSE IF b.type = "submodule" /\ a.type # "submodule" THEN 1
    ELSE IF a.type = "nested" /\ b.type = "main" THEN -1
    ELSE IF b.type = "nested" /\ a.type = "main" THEN 1
    ELSE 0

RECURSIVE InsertSorted(_, _)
RECURSIVE SortRepositoriesForProcessing(_)

\* Array.prototype.sort is stable: x goes behind the elements that do not come after it.
InsertSorted(sorted, x) ==
    IF sorted = <<>>
    THEN <<x>>
    ELSE IF Compare(x, Head(sorted)) < 0
    THEN <<x>> \o sorted
    ELSE <<Head(sorted)>> \o InsertSorted(Tail(sorted), x)

\* repos.sort(comparator): the array is sorted in place and returned
SortRepositoriesForProcessing(repos) ==
    IF repos = <<>>
    THEN <<>>
    ELSE InsertSorted(SortRepositoriesForProcessing(SubSeq(repos, 1, Len(repos) - 1)),
                      repos[Len(repos)])

-----------------------------------------------------------------------------
(* The steps of one invocation of runGitTasks, one per await *)

Alive == proc # "exited"

At(c, site) == Alive /\ run[c].pc = site

Becomes(c, f) == run' = [run EXCEPT ![c] = f]

\* A call of gitCommitAndPushWithDetails is in progress in the frame.
InDetails(f) ==
    f.pc \notin {"idle", "discover", "rgt_status", "rgt_statusB", "rgt_remote",
                 "returned", "summary", "uncaught"}

\* console.log after the step: a call that has started has installed its wrapper
\* (console.log = (message) => ...), a call that has returned has assigned the logger it
\* saved when it started (console.log = originalLog).
ConsoleLogAfter ==
    IF \E c \in Cycles : ~InDetails(run[c]) /\ InDetails(run'[c])
    THEN CHOOSE c \in Cycles : ~InDetails(run[c]) /\ InDetails(run'[c])
    ELSE IF \E c \in Cycles : InDetails(run[c]) /\ ~InDetails(run'[c])
    THEN run[CHOOSE c \in Cycles : InDetails(run[c]) /\ ~InDetails(run'[c])].loc.originalLog
    ELSE consoleLog

\* What a step of an invocation leaves alone, and what it does to console.log.
Process ==
    /\ UNCHANGED <<proc, periodicTimer, activeTimers, faults, disk, adv>>
    /\ consoleLog' = ConsoleLogAfter

\* The answers a child process can give in this run of the process.
Answers(results) ==
    IF faults THEN results ELSE { r \in results : r.ok }

\* git remote -v in the repository
RemoteV(repoPath) ==
    IF Below(repoPath) \in disk.remoteless
    THEN <<>>
    ELSE << "origin git@github.com:acme/app.git (fetch)",
            "origin git@github.com:acme/app.git (push)" >>

\* The answers of a git push: without a remote it fails.
PushAnswers(f, results) ==
    IF Len(RemoteV(f.repositories[f.idx])) = 0
    THEN { r \in Answers(results) : ~r.ok }
    ELSE Answers(results)

\* The answers of a git status in the repository at hand.
StatusAnswers(f, results) ==
    IF Below(f.repositories[f.idx]) \in disk.broken
    THEN { r \in Answers(results) : ~r.ok }
    ELSE Answers(results)

\* await findAllGitRepositoriesSimple(currentDir): the tree does not change during the
\* walk, so the walk is one step.  runGitTasks has no try around it.
Discover(c) ==
    /\ At(c, "discover")
    /\ LET walk == FindAllGitRepositoriesSimple(disk)
       IN  Becomes(c, IF walk.error
                      THEN [run[c] EXCEPT !.pc = "uncaught"]
                      ELSE IF Len(walk.repositories) = 0
                      THEN [run[c] EXCEPT !.pc = "returned"]
                      ELSE [run[c] EXCEPT !.repositories = walk.repositories,
                                          !.idx = 1, !.pc = "rgt_status"])
    /\ Process

\* The next pass of the loop starts with fresh locals.
InspectStatus(c) ==
    /\ At(c, "rgt_status")
    /\ \E r \in StatusAnswers(run[c], StatusResults) :
          LET f == [run[c] EXCEPT !.loc = Locals, !.cmds = <<>>]
          IN  Becomes(c, IF r.ok
                         THEN [f EXCEPT !.loc.gitStatus = r.stdout, !.pc = "rgt_statusB"]
                         ELSE Catch(f, "rgt_status", r))
    /\ Process

InspectBranch(c) ==
    /\ At(c, "rgt_statusB")
    /\ \E r \in StatusAnswers(run[c], BranchResults) :
          Becomes(c, IF r.ok
                     THEN [run[c] EXCEPT !.loc.branchStatus = r.stdout, !.pc = "rgt_remote"]
                     ELSE Catch(run[c], "rgt_statusB", r))
    /\ Process

\* getRemoteInfo (git remote -v) catches its own errors; its result is only printed.
GetRemoteInfo(c) ==
    /\ At(c, "rgt_remote")
    /\ Becomes(c, AfterInspect(run[c]))
    /\ Process

GcpStatus(c) ==
    /\ At(c, "gcp_status")
    /\ \E r \in StatusAnswers(run[c], StatusResults) :
          Becomes(c, IF r.ok
                     THEN [run[c] EXCEPT !.loc.statusOutput = r.stdout, !.pc = "gcp_statusB"]
                     ELSE Catch(run[c], "gcp_status", r))
    /\ Process

GcpStatusBranch(c) ==
    /\ At(c, "gcp_statusB")
    /\ \E r \in StatusAnswers(run[c], BranchResults) :
          Becomes(c, IF r.ok
                     THEN AfterStatusBranch(
                             [run[c] EXCEPT !.loc.statusBranch = r.stdout,
                                            !.loc.hasUnpushedCommits = Includes(r.stdout, "ahead")])
                     ELSE Catch(run[c], "gcp_statusB", r))
    /\ Process

\* git add changes what git status reports: the status locals no longer describe the
\* repository, and the code does not read them again.
PastDecision(f) ==
    [f EXCEPT !.loc.statusOutput = Null, !.loc.statusBranch = Null,
              !.loc.hasUnpushedCommits = FALSE]

\* git add . and then generateCommitMessageWithAI up to its first await
GitAdd(c) ==
    /\ At(c, "gcp_add")
    /\ \E r \in Answers(PlainResults) :
          LET f == Exec(PastDecision(run[c]), "git add .")
          IN  Becomes(c, IF r.ok THEN [f EXCEPT !.pc = "oa_status"] ELSE Catch(f, "gcp_add", r))
    /\ Process

GitCommit(c) ==
    /\ At(c, "gcp_commit")
    /\ \E now \in Instants, r \in Answers(CommitResults) :
          LET f == Exec([run[c] EXCEPT !.loc.commitMessage =
                                          CommitMessageFor(run[c].loc.aiCommitMessage, now)],
                        "git commit -m")
          IN  Becomes(c, IF r.ok THEN [f EXCEPT !.pc = "gcp_push"] ELSE Catch(f, "gcp_commit", r))
    /\ Process

\* The block of the commit is left.
PastCommit(f) ==
    [f EXCEPT !.loc.aiCommitMessage = Null, !.loc.commitMessage = Null,
              !.loc.tried = <<>>, !.loc.oracleOut = Null]

GitPush(c) ==
    /\ At(c, "gcp_push")
    /\ \E r \in PushAnswers(run[c], PlainPushResults) :
          LET f == Exec(PastCommit(run[c]), "git push")
          IN  Becomes(c, IF r.ok THEN Return(f, "true") ELSE Catch(f, "gcp_push", r))
    /\ Process

GitBranch(c) ==
    /\ At(c, "gcp_branch")
    /\ \E r \in Answers(BranchNameResults) :
          Becomes(c, IF r.ok
                     THEN [run[c] EXCEPT !.loc.branch = Trim(r.stdout), !.pc = "gcp_pushU"]
                     ELSE Catch(run[c], "gcp_branch", r))
    /\ Process

GitPushUpstream(c) ==
    /\ At(c, "gcp_pushU")
    /\ LET command == "git push -u origin " \o run[c].loc.branch[1]
       IN  \E r \in PushAnswers(run[c], PushResults(command)) :
              LET f == Exec([run[c] EXCEPT !.loc.branch = Null], "git push -u origin")
              IN  Becomes(c, IF r.ok THEN Return(f, "true") ELSE Catch(f, "gcp_pushU", r))
    /\ Process

PullCommand(site) ==
    CASE site = "fix_pullMerge" -> "git pull --no-rebase"
      [] site = "fix_pullRebase" -> "git pull --rebase"
      [] OTHER -> "git pull"

\* The pulls of attemptAutoFix.
AutoFixPull(c) ==
    /\ Alive
    /\ run[c].pc \in {"fix_pullMerge", "fix_pullRebase", "fix_pullAI"}
    /\ \E r \in Answers(PlainResults) :
          LET f == Exec(run[c], PullCommand(run[c].pc))
          IN  Becomes(c, IF r.ok THEN FixDone(f, TRUE) ELSE Catch(f, run[c].pc, r))
    /\ Process

RetryPush(c) ==
    /\ At(c, "gcp_retryPush")
    /\ \E r \in PushAnswers(run[c], PushResults("git push")) :
          LET f == Exec(run[c], "git push")
          IN  Becomes(c, IF r.ok THEN Return(f, "true") ELSE Catch(f, "gcp_retryPush", r))
    /\ Process

\* An exec call without the timeout option.
TimeoutNever(site) ==
    0

\* The timeout option of the execAsync call at a site, in milliseconds; 0 where none is
\* given (the git commands).
TimeoutOf(site) ==
    CASE site = "oa_agent" -> 30000
      [] site = "fb_which" -> 5000
      [] site = "fb_run" -> 15000
      [] site = "ask_which" -> 5000
      [] site = "ask_run" -> 30000
      [] OTHER -> 0

\* child_process.exec kills a child that runs longer than its timeout and rejects.
TimedOut ==
    Err(<<"Command failed">>, <<>>)

\* which <cli>
AskWhichOn(c, results) ==
    /\ At(c, "ask_which")
    /\ \E r \in results :
          LET f == Try(run[c], "which " \o AiClis[run[c].loc.ai].name)
          IN  Becomes(c, IF r.ok THEN [f EXCEPT !.pc = "ask_run"] ELSE Catch(f, "ask_which", r))
    /\ Process

AskWhich(c) ==
    AskWhichOn(c, Answers(PlainResults))

\* echo "<problem>" | <cli>
AskRunOn(c, results) ==
    /\ At(c, "ask_run")
    /\ \E r \in results :
          LET f == Try(run[c], AiClis[run[c].loc.ai].command)
          IN  Becomes(c, IF r.ok
                         THEN IF Len(Trim(r.stdout)) > 0
                              THEN AskReturn([f EXCEPT !.loc.ai = 0], FirstLine(Trim(r.stdout)))
                              ELSE AskNext(f)
                         ELSE Catch(f, "ask_run", r))
    /\ Process

AskRun(c) ==
    AskRunOn(c, Answers(SolutionResults))

-----------------------------------------------------------------------------
(* generateCommitMessageWithAI and tryFallbackAIs *)

\* git status --porcelain
OaStatus(c) ==
    /\ At(c, "oa_status")
    /\ \E r \in StatusAnswers(run[c], StatusResults) :
          Becomes(c, IF r.ok
                     THEN IF Len(Trim(r.stdout)) = 0
                          THEN OracleReturn(run[c], Null)
                          ELSE [run[c] EXCEPT !.pc = "oa_diff"]
                     ELSE Catch(run[c], "oa_status", r))
    /\ Process

\* git diff --cached --stat
OaDiff(c) ==
    /\ At(c, "oa_diff")
    /\ \E r \in Answers(DiffResults) :
          Becomes(c, IF r.ok
                     THEN IF r.stdout = <<>>
                          THEN OracleReturn(run[c], Null)
                          ELSE [run[c] EXCEPT !.pc = "oa_root"]
                     ELSE Catch(run[c], "oa_diff", r))
    /\ Process

\* findProjectRoot walks up from the script's directory; it returns null or the root.
OaRoot(c) ==
    /\ At(c, "oa_root")
    /\ \E found \in BOOLEAN :
          Becomes(c, IF found THEN [run[c] EXCEPT !.pc = "oa_agent"] ELSE OracleReturn(run[c], Null))
    /\ Process

\* npx ts-node <ai-commit-agent.ts> --man "<summary>"
OaAgentOn(c, results) ==
    /\ At(c, "oa_agent")
    /\ \E r \in results :
          LET f == [Try(run[c], AiAgent) EXCEPT !.loc.oracleOut = r.stdout]
          IN  Becomes(c, IF r.ok
                         THEN IF Len(Trim(r.stdout)) > 0
                              THEN OracleReturn(f, Trim(r.stdout))
                              ELSE OracleReturn(f, Null)
                         ELSE Catch(f, "oa_agent", r))
    /\ Process

OaAgent(c) ==
    OaAgentOn(c, Answers(OracleResults))

\* git diff --cached --stat
FbDiff(c) ==
    /\ At(c, "fb_diff")
    /\ \E r \in Answers(DiffResults) :
          Becomes(c, IF r.ok
                     THEN IF Len(Trim(r.stdout)) = 0
                          THEN OracleReturn(run[c], Null)
                          ELSE [run[c] EXCEPT !.loc.ai = 1, !.pc = "fb_which"]
                     ELSE Catch(run[c], "fb_diff", r))
    /\ Process

\* which <cli>
FbWhichOn(c, results) ==
    /\ At(c, "fb_which")
    /\ \E r \in results :
          LET f == Try(run[c], "which " \o FallbackAIs[run[c].loc.ai].name)
          IN  Becomes(c, IF r.ok THEN [f EXCEPT !.pc = "fb_run"] ELSE Catch(f, "fb_which", r))
    /\ Process

FbWhich(c) ==
    FbWhichOn(c, Answers(PlainResults))

\* echo "<summary>" | <cli> commit
FbRunOn(c, results) ==
    /\ At(c, "fb_run")
    /\ \E r \in results :
          LET f == [Try(run[c], FallbackAIs[run[c].loc.ai].command) EXCEPT !.loc.oracleOut = r.stdout]
          IN  Becomes(c, IF r.ok
                         THEN IF Len(Trim(r.stdout)) > 0
                              THEN OracleReturn(f, FirstLine(Trim(r.stdout)))
                              ELSE FallbackNext(f)
                         ELSE Catch(f, "fb_run", r))
    /\ Process

FbRun(c) ==
    FbRunOn(c, Answers(OracleResults))

-----------------------------------------------------------------------------
(* main, the interval timer and the readline handler *)

Start ==
    /\ proc = "starting"
    /\ periodicTimer = 0
    /\ activeTimers = {}
    /\ run = [c \in Cycles |-> IF c = 1 THEN NewFrame ELSE IdleFrame]
    /\ consoleLog = 0
    /\ adv = NoCall

Init ==
    /\ Start
    /\ faults = TRUE
    /\ disk \in { Nested(n, order) : n \in 0..MaxRepos, order \in Orders }

Finished(c) == run[c].pc \in {"returned", "summary"}

\* A clearInterval that cancels nothing.
ClearedNothing ==
    activeTimers

\* clearInterval(periodicTimer) when it is not null
Cleared ==
    IF periodicTimer # 0 THEN activeTimers \ {periodicTimer} ELSE activeTimers

\* setInterval returns a handle that no live timer has.
NewHandle ==
    CHOOSE h \in 1..(Cardinality(Cleared) + 1) : h \notin Cleared

\* A startPeriodicTimer that leaves the timer it replaces running.
StartPeriodicTimerUncleared ==
    LET handle == CHOOSE h \in 1..(Cardinality(activeTimers) + 1) : h \notin activeTimers
    IN  /\ periodicTimer' = handle
        /\ activeTimers' = activeTimers \cup {handle}

\* startPeriodicTimer: clearInterval of the timer there is, then setInterval
StartPeriodicTimer ==
    /\ periodicTimer' = NewHandle
    /\ activeTimers' = Cleared \cup {NewHandle}

\* main: the first scan has returned; the timer is started and the line listener installed.
MainListen ==
    /\ proc = "starting"
    /\ Finished(1)
    /\ StartPeriodicTimer
    /\ proc' = "listening"
    /\ run' = [run EXCEPT ![1] = IdleFrame]
    /\ UNCHANGED <<faults, disk, consoleLog, adv>>

\* The interval callback calls runGitTasks.
TimerFireIn(slots) ==
    /\ proc = "listening"
    /\ activeTimers # {}
    /\ \E c \in slots :
          /\ run[c].pc = "idle"
          /\ Becomes(c, NewFrame)
    /\ Process

TimerFire ==
    TimerFireIn(Cycles)

\* rl.on('line'): case 'r'
LineRescanIn(slots) ==
    /\ proc = "listening"
    /\ \E c \in slots :
          /\ run[c].pc = "idle"
          /\ Becomes(c, NewFrame)
    /\ Process

LineRescan ==
    LineRescanIn(Cycles)

\* rl.on('line'): case 'R', reloadScript; spawn may throw, and then the timer is restarted
LineReload ==
    /\ proc = "listening"
    /\ \/ /\ activeTimers' = Cleared
          /\ proc' = "exited"
          /\ UNCHANGED <<periodicTimer, run, faults, disk, consoleLog, adv>>
       \/ /\ StartPeriodicTimer
          /\ UNCHANGED <<proc, run, faults, disk, consoleLog, adv>>

\* rl.on('line'): case 'q'
LineQuit ==
    /\ proc = "listening"
    /\ activeTimers' = Cleared
    /\ proc' = "exited"
    /\ UNCHANGED <<periodicTimer, run, faults, disk, consoleLog, adv>>

\* rl.on('line'): default
LineOther ==
    /\ proc = "listening"
    /\ UNCHANGED vars

\* An invocation started by the timer or by 'r' has returned.
Settle(c) ==
    /\ proc = "listening"
    /\ Finished(c)
    /\ Becomes(c, IdleFrame)
    /\ Process

Step(c) ==
    \/ InspectStatus(c) \/ InspectBranch(c) \/ GetRemoteInfo(c)
    \/ GcpStatus(c) \/ GcpStatusBranch(c) \/ GitAdd(c)
    \/ OaStatus(c) \/ OaDiff(c) \/ OaRoot(c) \/ OaAgent(c)
    \/ FbDiff(c) \/ FbWhich(c) \/ FbRun(c)
    \/ GitCommit(c) \/ GitPush(c) \/ GitBranch(c) \/ GitPushUpstream(c)
    \/ AutoFixPull(c) \/ RetryPush(c) \/ AskWhich(c) \/ AskRun(c)

\* The steps that wait for a git command or for the file system.
GitStep(c) ==
    \/ InspectStatus(c) \/ InspectBranch(c) \/ GetRemoteInfo(c)
    \/ GcpStatus(c) \/ GcpStatusBranch(c) \/ GitAdd(c)
    \/ OaStatus(c) \/ OaDiff(c) \/ OaRoot(c) \/ FbDiff(c)
    \/ GitCommit(c) \/ GitPush(c) \/ GitBranch(c) \/ GitPushUpstream(c)
    \/ AutoFixPull(c) \/ RetryPush(c)

\* The timeout of the exec call that an oracle step waits for elapses.
OracleTimeout(c) ==
    /\ TimeoutOf(run[c].pc) > 0
    /\ \/ OaAgentOn(c, {TimedOut}) \/ FbWhichOn(c, {TimedOut}) \/ FbRunOn(c, {TimedOut})
       \/ AskWhichOn(c, {TimedOut}) \/ AskRunOn(c, {TimedOut})

\* main up to the installation of the timer: the first scan runs alone.
Next ==
    \/ Discover(1)
    \/ Step(1)
    \/ MainListen

Spec == Init /\ [][Next]_vars

\* Every child process ends, and Node then runs the continuation that awaits it.
InitFair ==
    /\ Start
    /\ faults = TRUE
    /\ disk \in { Nested(n, order) : n \in 0..FairRepos, order \in Orders }

SpecFair == InitFair /\ [][Next]_vars /\ WF_vars(Step(1))

\* Every git command ends; an oracle command may never answer, and then its timeout
\* elapses.
SpecHung == InitFair /\ [][Next]_vars /\ WF_vars(GitStep(1)) /\ WF_vars(OracleTimeout(1))

\* The first scan over repositories of which some have no remote configured.
InitRemote ==
    /\ Start
    /\ faults = TRUE
    /\ \E n \in 0..RemoteRepos, order \in Orders :
          \E repos \in SUBSET { [i \in 1..k |-> "app"] : k \in 0..(n - 1) } :
              disk = WithoutRemote(Nested(n, order), repos)

SpecRemote == InitRemote /\ [][Next]_vars

\* The first scan over repositories in some of which git status cannot be read.
InitBroken ==
    /\ Start
    /\ faults = TRUE
    /\ \E n \in 0..BrokenRepos, order \in Orders :
          \E repos \in SUBSET { [i \in 1..k |-> "app"] : k \in 0..(n - 1) } :
              disk = WithBroken(Nested(n, order), repos)

SpecBroken == InitBroken /\ [][Next]_vars

\* The whole process with child processes that succeed: scans started by the timer and
\* by 'r' overlap.  The steps that only a failed command leads to are never enabled.
InitSched ==
    /\ Start
    /\ faults = FALSE
    /\ disk \in { Nested(n, order) : n \in 0..SchedRepos, order \in Orders }

StepCalm(c) ==
    \/ InspectStatus(c) \/ InspectBranch(c) \/ GetRemoteInfo(c)
    \/ GcpStatus(c) \/ GcpStatusBranch(c) \/ GitAdd(c)
    \/ OaStatus(c) \/ OaDiff(c) \/ OaRoot(c) \/ OaAgent(c)
    \/ GitCommit(c) \/ GitPush(c)

NextSched ==
    \/ \E c \in Cycles : Discover(c)
    \/ \E c \in Cycles : StepCalm(c)
    \/ MainListen
    \/ TimerFire
    \/ LineRescan
    \/ LineReload
    \/ LineQuit
    \/ LineOther
    \/ \E c \in Cycles : Settle(c)

SpecSched == InitSched /\ [][NextSched]_vars

-----------------------------------------------------------------------------
(* Observations *)

\* An invocation of runGitTasks that has started and not yet returned.
InFlight(c) ==
    run[c].pc \notin {"idle", "returned", "summary", "uncaught"}

\* The pass for the repository at position Len(outcomes) has just ended: its result line
\* is printed, and its locals and commands are still there.
JustFinished(f) ==
    Len(f.outcomes) > 0 /\ f.pc \in {"rgt_status", "summary"}

LastOutcome(f) ==
    f.outcomes[Len(f.outcomes)]

Count(cmds, set) ==
    Cardinality({i \in 1..Len(cmds) : cmds[i] \in set})

Pulls == {"git pull --no-rebase", "git pull --rebase", "git pull"}
Pushes == {"git push", "git push -u origin"}

\* The latest status reads of the pass say: nothing uncommitted, not ahead of the upstream.
Synchronized(f) ==
    \/ /\ f.loc.gitStatus # Null /\ f.loc.branchStatus # Null
       /\ Len(Trim(f.loc.gitStatus)) = 0 /\ ~AheadOfUpstream(f.loc.branchStatus)
    \/ /\ f.loc.statusOutput # Null /\ f.loc.statusBranch # Null
       /\ Len(Trim(f.loc.statusOutput)) = 0 /\ ~AheadOfUpstream(f.loc.statusBranch)

Diverged(message) ==
    \/ Includes(ToLowerCase(message), "fetch first")
    \/ Includes(ToLowerCase(message), "non-fast-forward")

NotAutoFixable(message) ==
    \/ Includes(ToLowerCase(message), "repository not found")
    \/ Includes(ToLowerCase(message), "host key verification failed")
    \/ Includes(ToLowerCase(message), "permission denied")
    \/ Includes(ToLowerCase(message), "access rights")

NothingToCommit(e) ==
    ~e.ok /\ (Includes(e.stdout, "nothing to commit") \/ Includes(e.message, "nothing to commit"))

-----------------------------------------------------------------------------
(* Claims *)

\* C1: at most one invocation of runGitTasks is in flight at any time: a timer tick or an
\* 'r' that arrives while a scan is running starts no second scan.
C1_OneCycleInFlight ==
    \A c, d \in Cycles : InFlight(c) /\ InFlight(d) => c = d

\* C2: failure isolation: no scan ends early.  While a scan runs, every repository before
\* the one at hand has its result, whatever those results are; the summary is reached
\* only with a result for every discovered repository, and no error leaves the loop.
C2_FailureIsolation ==
    \A c \in Cycles :
        LET f == run[c]
        IN  /\ f.pc # "uncaught"
            /\ f.pc = "summary" => Len(f.outcomes) = Len(f.repositories)
            /\ f.pc = "returned" => f.repositories = <<>>
            /\ f.pc \notin {"idle", "discover", "returned", "summary"} =>
                  /\ f.idx \in 1..Len(f.repositories)
                  /\ Len(f.outcomes) = f.idx - 1

\* C2 witness: the summary of a scan whose first repository failed and whose second
\* repository was processed all the same.
C2_Witness ==
    \E c \in Cycles :
        /\ run[c].pc = "summary"
        /\ Len(run[c].outcomes) = 2
        /\ run[c].outcomes[1] = "Failure"
        /\ run[c].outcomes[2] = "Success"

\* C3: every processed repository gets exactly one of Success, NoChanges, Failure: at all
\* times the three counters add up to the number of results printed, the list of failed
\* repositories has failureCount entries, and at the summary the sum is the number of
\* discovered repositories.
C3_OneOutcomeEach ==
    \A c \in Cycles :
        LET f == run[c]
        IN  /\ f.successCount = Count(f.outcomes, {"Success"})
            /\ f.noChangesCount = Count(f.outcomes, {"NoChanges"})
            /\ f.failureCount = Count(f.outcomes, {"Failure"})
            /\ Len(f.failedRepos) = f.failureCount
            /\ f.pc = "summary" =>
                  f.successCount + f.noChangesCount + f.failureCount = Len(f.repositories)

\* C3 witness: a summary over two repositories of which one failed and one had no changes.
C3_Witness ==
    \E c \in Cycles :
        /\ run[c].pc = "summary"
        /\ Len(run[c].repositories) = 2
        /\ run[c].failureCount = 1
        /\ run[c].noChangesCount = 1

\* C4: skip when synchronized: when the status reads of a pass say that nothing is
\* uncommitted and that the branch is not ahead of its upstream, no git add, commit, push
\* or pull is run for the repository and it is counted as NoChanges.
C4_SkipWhenSynchronized ==
    \A c \in Cycles :
        LET f == run[c]
        IN  Synchronized(f) =>
                /\ f.cmds = <<>>
                /\ f.pc \notin {"gcp_add", "gcp_push"}
                /\ JustFinished(f) => LastOutcome(f) = "NoChanges"

C6_NeverThrows ==
    /\ [](\A c \in Cycles :
            /\ run[c].pc # "uncaught"
            /\ \A i \in 1..Len(run[c].outcomes) :
                  run[c].outcomes[i] \in {"Success", "NoChanges", "Failure"})
    /\ (run[1].pc = "gcp_status") ~> (run[1].pc \in {"rgt_status", "summary"})

\* C6 witness: git add failed and the pass ended with the result Failure.
C6_Witness ==
    \E c \in Cycles :
        /\ JustFinished(run[c])
        /\ run[c].cmds = <<"git add .">>
        /\ LastOutcome(run[c]) = "Failure"

\* C7 as stated: whenever the text of the push failure indicates a missing remote
\* repository, a failed host-key verification or a permission problem, no git pull and no
\* further push is run and the result is Failure.
C7_NoRecoveryWhenNotAutoFixable ==
    \A c \in Cycles :
        LET f == run[c]
        IN  f.loc.errorMsg # Null /\ NotAutoFixable(f.loc.errorMsg) =>
                /\ Count(f.cmds, Pulls) = 0
                /\ f.pc \notin {"fix_pullMerge", "fix_pullRebase", "fix_pullAI", "gcp_retryPush"}
                /\ JustFinished(f) => LastOutcome(f) = "Failure"

\* C7 as amended: the same, when the text contains neither "fetch first" nor
\* "non-fast-forward".
C7_NoRecoveryUnlessDiverged ==
    \A c \in Cycles :
        LET f == run[c]
        IN  f.loc.errorMsg # Null /\ NotAutoFixable(f.loc.errorMsg) /\ ~Diverged(f.loc.errorMsg) =>
                /\ Count(f.cmds, Pulls) = 0
                /\ f.cmds[Len(f.cmds)] = "git push -u origin"
                /\ f.pc \notin {"fix_pullMerge", "fix_pullRebase", "fix_pullAI", "gcp_retryPush"}
                /\ JustFinished(f) => LastOutcome(f) = "Failure"

\* C7 witness: a pass that ended in Failure on "Host key verification failed."
C7_Witness ==
    \E c \in Cycles :
        /\ JustFinished(run[c])
        /\ run[c].loc.errorMsg = <<"Command failed: git push -u origin main", "Host key verification failed.">>
        /\ LastOutcome(run[c]) = "Failure"

\* The scenario of C8: changes were staged and committed and the plain push failed for
\* want of an upstream branch.
NoUpstreamScenario(f) ==
    /\ Len(f.cmds) >= 3
    /\ SubSeq(f.cmds, 1, 3) = <<"git add .", "git commit -m", "git push">>
    /\ NoUpstream(f.loc.pushError.message)

BranchLookupFailed(f) ==
    f.loc.errorMsg = <<"Command failed: git branch --show-current">>

\* C8: with uncommitted changes and no upstream branch the commands are, in this order,
\* git add, git commit, the plain git push and, once the branch name is read, exactly one
\* git push -u origin <branch>; when that push succeeds the result is Success and neither
\* a pull nor any other recovery step has run.
C8_SetUpstreamOnce ==
    \A c \in Cycles :
        LET f == run[c]
        IN  NoUpstreamScenario(f) =>
                /\ Count(f.cmds, {"git push -u origin"}) <= 1
                /\ Len(f.cmds) >= 4 => f.cmds[4] = "git push -u origin"
                /\ f.pc = "gcp_pushU" => Len(f.cmds) = 3
                /\ JustFinished(f) /\ ~BranchLookupFailed(f) =>
                      Count(f.cmds, {"git push -u origin"}) = 1
                /\ JustFinished(f) /\ f.loc.errorMsg = Null =>
                      /\ f.cmds = <<"git add .", "git commit -m", "git push", "git push -u origin">>
                      /\ LastOutcome(f) = "Success"
                      /\ ~f.loc.fixAttempted
                      /\ f.loc.aiSolution = Null

\* C8 witness: the pass of the scenario has ended in Success by the push that set the
\* upstream.
C8_Witness ==
    \E c \in Cycles :
        /\ JustFinished(run[c])
        /\ NoUpstreamScenario(run[c])
        /\ run[c].loc.errorMsg = Null
        /\ run[c].cmds[Len(run[c].cmds)] = "git push -u origin"
        /\ LastOutcome(run[c]) = "Success"

\* C9: nothing to commit is benign: when git commit reports "nothing to commit", the
\* result of the repository is not Failure and it is not among the failed repositories.
C9_NothingToCommitBenign ==
    \A c \in Cycles :
        LET f == run[c]
        IN  JustFinished(f) /\ NothingToCommit(f.loc.commitError) =>
                /\ LastOutcome(f) # "Failure"
                /\ \A i \in 1..Len(f.failedRepos) :
                      f.failedRepos[i].path # Relative(f.repositories[Len(f.outcomes)])

\* C10: fallback message: a commit is never attempted with a null or empty message, and
\* when the oracle adapter returned no message the commit is attempted with
\* "Auto-commit by git-air at <ISO-8601 timestamp>".
C10_FallbackMessage ==
    \A c \in Cycles :
        LET f == run[c]
        IN  f.cmds # <<>> /\ f.cmds[Len(f.cmds)] = "git commit -m" =>
                /\ f.loc.commitMessage # Null
                /\ f.loc.commitMessage # <<>>
                /\ f.loc.aiCommitMessage \in {Null, <<>>} =>
                      f.loc.commitMessage \in
                          { <<"Auto-commit by git-air at 2024-05-01T10:00:00.000Z">>,
                            <<"Auto-commit by git-air at 2024-05-01T10:05:00.000Z">> }

\* C10 witness: every fallback oracle failed and the commit was attempted with the
\* fallback message.
C10_Witness ==
    \E c \in Cycles :
        /\ run[c].cmds = <<"git add .", "git commit -m">>
        /\ run[c].loc.aiCommitMessage = Null
        /\ run[c].loc.commitMessage = <<"Auto-commit by git-air at 2024-05-01T10:05:00.000Z">>

-----------------------------------------------------------------------------
(* The commit-message oracle adapter *)

\* generateCommitMessageWithAI has returned; aiCommitMessage holds what it returned.
OracleReturned(f) ==
    f.pc = "gcp_commit"

InAdapter(f) ==
    f.pc \in {"oa_status", "oa_diff", "oa_root", "oa_agent", "fb_diff", "fb_which", "fb_run"}

PrimaryTried(f) ==
    \E i \in 1..Len(f.loc.tried) : f.loc.tried[i] = AiAgent

AlternativeTried(f) ==
    \E i \in 1..Len(f.loc.tried), k \in 1..Len(FallbackAIs) :
        f.loc.tried[i] = "which " \o FallbackAIs[k].name

\* C11: the fallback chain never raises: while generateCommitMessageWithAI and
\* tryFallbackAIs run no error leaves them, what they return is null or a non-empty
\* text, and every call made in the scan awaited by main returns (each child process it
\* awaits ends).
C11_OracleNeverRaises ==
    /\ [](\A c \in Cycles :
            /\ run[c].pc # "uncaught"
            /\ OracleReturned(run[c]) =>
                  \/ run[c].loc.aiCommitMessage = Null
                  \/ Len(run[c].loc.aiCommitMessage) > 0)
    /\ InAdapter(run[1]) ~> OracleReturned(run[1])

\* C11 witness: the primary oracle failed, none of the alternatives is installed, and the
\* adapter returned null.
C11_Witness ==
    \E c \in Cycles :
        /\ OracleReturned(run[c])
        /\ run[c].loc.aiCommitMessage = Null
        /\ run[c].loc.tried = <<AiAgent, "which gemini-cli", "which claude", "which codex">>

\* C12: whenever the primary oracle was run and the adapter returned null, the adapter
\* has tried the alternatives: at least the first existence check was made.
C12_AlternativesBeforeNone ==
    \A c \in Cycles :
        LET f == run[c]
        IN  OracleReturned(f) /\ PrimaryTried(f) /\ f.loc.aiCommitMessage = Null =>
                AlternativeTried(f)

\* The executable a command line starts.
Executable(command) ==
    CASE command \in {"gemini commit", "gemini"} -> "gemini"
      [] command \in {"claude commit", "claude"} -> "claude"
      [] command \in {"codex commit", "codex"} -> "codex"
      [] OTHER -> command

OracleCommands ==
    { FallbackAIs[k].command : k \in 1..Len(FallbackAIs) } \cup
    { AiClis[k].command : k \in 1..Len(AiClis) }

\* The existence checks made so far are those of the first tools of the list, in order.
ChecksInOrder(tried, list) ==
    LET checks == SelectSeq(tried, LAMBDA x : x \in { "which " \o list[k].name : k \in 1..Len(list) })
    IN  /\ Len(checks) <= Len(list)
        /\ \A k \in 1..Len(checks) : checks[k] = "which " \o list[k].name

\* C13: ordered fallback: the tools are checked in list order, a tool is invoked only
\* directly after the existence check of its own executable, and once an alternative
\* has given the message nothing more is invoked.
C13_OrderedFallback ==
    \A c \in Cycles :
        LET f == run[c]
            tried == f.loc.tried
        IN  /\ \A i \in 1..Len(tried) :
                  tried[i] \in OracleCommands =>
                      i > 1 /\ tried[i - 1] = "which " \o Executable(tried[i])
            /\ ChecksInOrder(tried, FallbackAIs) \/ ChecksInOrder(tried, AiClis)
            /\ OracleReturned(f) /\ f.loc.aiCommitMessage # Null /\ AlternativeTried(f) =>
                  /\ tried[Len(tried)] \in OracleCommands
                  /\ f.loc.aiCommitMessage = FirstLine(Trim(f.loc.oracleOut))

\* C14: every message the adapter returns is a single line, the first line of the
\* output of the oracle that gave it.
C14_SingleLine ==
    \A c \in Cycles :
        LET f == run[c]
        IN  OracleReturned(f) /\ f.loc.aiCommitMessage # Null =>
                /\ Len(f.loc.aiCommitMessage) = 1
                /\ f.loc.aiCommitMessage = FirstLine(Trim(f.loc.oracleOut))

-----------------------------------------------------------------------------
(* Discovery *)

\* The .git entries a tree can hold: at the scan root or below at most MaxDepth - 1
\* directories.
GitEntries ==
    UNION { { Append(q, ".git") : q \in [1..n -> Names] } : n \in 0..(MaxDepth - 1) }

\* Discovery alone, over every tree that two .git entries (directories or files) span,
\* under either root name, in either entry order, with at most one unreadable directory.
InitWalk ==
    /\ Start
    /\ faults = FALSE
    /\ \E a, b \in GitEntries, ka, kb \in {"dir", "file"}, root \in RootNames, order \in Orders :
          LET leaves == [p \in {a, b} |-> IF p = a THEN ka ELSE kb]
              tree == Tree(leaves, root, {}, order)
          IN  \E unreadable \in {{}} \cup { {p} : p \in DirsOf(tree) } :
                 disk = [tree EXCEPT !.unreadable = unreadable]

NextWalk ==
    Discover(1)

SpecWalk == InitWalk /\ [][NextWalk]_vars

\* findAllGitRepositoriesSimple has returned (or thrown) in invocation c.
Walked(c) ==
    run[c].pc \notin {"idle", "discover"}

Returned(c) ==
    { run[c].repositories[i] : i \in 1..Len(run[c].repositories) }

Abs(p) ==
    <<disk.root>> \o p

\* Directory p has a child entry named .git of one of the kinds.
HasGit(p, kinds) ==
    /\ Append(p, ".git") \in DOMAIN disk.kind
    /\ disk.kind[Append(p, ".git")] \in kinds

HasSegment(p, names) ==
    \E i \in 1..Len(p) : p[i] \in names

\* p and every directory between the scan root and p can be read.
ReadableTo(p) ==
    \A n \in 0..Len(p) : SubSeq(p, 1, n) \notin disk.unreadable

NoDenylistedDirectory ==
    \A p \in DirsOf(disk) : ~HasSegment(p, Denylist)

\* C15 as stated: in a readable tree without denylisted names discovery returns exactly
\* the directories that contain a .git directory, each once.
C15_ExactlyTheRepositories ==
    \A c \in Cycles :
        Walked(c) /\ disk.unreadable = {} /\ NoDenylistedDirectory =>
            /\ Returned(c) = { Abs(p) : p \in { q \in DirsOf(disk) : HasGit(q, {"dir"}) } }
            /\ Len(run[c].repositories) = Cardinality(Returned(c))

\* C15 as amended: the same for the directories that are not named .git and do not lie
\* below a directory named .git (under the scan root).
C15_ExactlyTheRepositoriesOutsideGit ==
    \A c \in Cycles :
        Walked(c) /\ disk.unreadable = {} /\ NoDenylistedDirectory =>
            /\ Returned(c) = { Abs(p) : p \in { q \in DirsOf(disk) :
                                                  HasGit(q, {"dir"}) /\ ~HasSegment(q, {".git"}) } }
            /\ Len(run[c].repositories) = Cardinality(Returned(c))

\* C15 witness: a repository at the scan root and one nested in it, both returned.
C15_Witness ==
    /\ Walked(1)
    /\ disk.unreadable = {} /\ NoDenylistedDirectory
    /\ HasGit(<<>>, {"dir"}) /\ HasGit(<<"app">>, {"dir"})
    /\ Returned(1) = { Abs(<<>>), Abs(<<"app">>) }

\* C16: denylist exclusion: no returned path has a segment below the scan root named
\* node_modules, vendor, .vscode or .idea.
C16_DenylistExclusion ==
    \A c \in Cycles :
        Walked(c) => \A r \in Returned(c) : ~HasSegment(Below(r), Denylist)

\* C16 witness: a .git directory two levels below vendor, and a walk that returned the
\* repository at the scan root only.
C16_Witness ==
    /\ Walked(1)
    /\ disk.unreadable = {}
    /\ HasGit(<<"vendor", "app">>, {"dir"})
    /\ HasGit(<<>>, {"dir"})
    /\ Returned(1) = { Abs(<<>>) }

\* C17: no descent into .git: no directory whose entries the walker reads is named .git
\* or lies in one, and no returned path has .git among its segments.
C17_NoDescentIntoGit ==
    \A c \in Cycles :
        Walked(c) =>
            /\ \A dir \in FindAllGitRepositoriesSimple(disk).read : ~HasSegment(dir, {".git"})
            /\ \A r \in Returned(c) : ~HasSegment(r, {".git"})

\* C18: a directory the walker reads is returned when it has a child entry named .git,
\* be that entry a directory or a regular file.
C18_GitFileOrDirectory ==
    \A c \in Cycles :
        Walked(c) =>
            \A p \in DirsOf(disk) :
                /\ HasGit(p, {"dir", "file"})
                /\ ReadableTo(p)
                /\ ~HasSegment(p, Denylist \cup {".git"})
                => Abs(p) \in Returned(c)

\* C19: unreadable directories are skipped: discovery does not throw, and it returns the
\* repositories (directories with a .git directory, outside .git and the denylisted
\* directories) that can be reached through readable directories, each once.
C19_UnreadableSkipped ==
    \A c \in Cycles :
        Walked(c) =>
            /\ run[c].pc # "uncaught"
            /\ Returned(c) = { Abs(p) : p \in { q \in DirsOf(disk) :
                                                  /\ HasGit(q, {"dir"})
                                                  /\ ReadableTo(q)
                                                  /\ ~HasSegment(q, Denylist \cup {".git"}) } }
            /\ Len(run[c].repositories) = Cardinality(Returned(c))

\* C19 witness: app cannot be read and holds a repository; lib, read after it, is
\* returned.
C19_Witness ==
    /\ Walked(1)
    /\ disk.unreadable = { <<"app">> }
    /\ HasGit(<<"app">>, {"dir"})
    /\ HasGit(<<"lib">>, {"dir"})
    /\ run[1].repositories = << Abs(<<"lib">>) >>

\* C20: processing order: when the repository at the scan root has its result, every
\* repository nested in it has its result already.
C20_NestedBeforeMain ==
    \A c \in Cycles :
        LET f == run[c]
        IN  \A i, j \in 1..Len(f.repositories) :
                /\ f.repositories[i] = Abs(<<>>)
                /\ j # i
                /\ Len(f.outcomes) >= i
                => Len(f.outcomes) >= j

-----------------------------------------------------------------------------
\* Shutdown (main, rl.on('line') case 'q')

\* The whole process as in SpecSched, with the scans of the timer and of 'r' held to the
\* first QuitInFlight slots.
QuitSlots == 1..QuitInFlight

NextQuit ==
    \/ \E c \in QuitSlots : Discover(c)
    \/ \E c \in QuitSlots : StepCalm(c)
    \/ MainListen
    \/ TimerFireIn(QuitSlots)
    \/ LineRescanIn(QuitSlots)
    \/ LineReload
    \/ LineQuit
    \/ LineOther
    \/ \E c \in QuitSlots : Settle(c)

SpecQuit == InitSched /\ [][NextQuit]_vars

\* A scan is started in a slot that was idle.
ScanStarts ==
    \E c \in Cycles : run[c].pc = "idle" /\ run'[c].pc # "idle"

\* C21: when 'q' has been handled the process has exited with no interval timer left
\* alive (the timer is cancelled by the handler, before process.exit), and from then on
\* no scan cycle starts.
C21_TimerCancelledOnQuit ==
    /\ [](proc = "exited" => activeTimers = {})
    /\ [][LineQuit => activeTimers' = {}]_vars
    /\ [][(proc = "exited" \/ proc' = "exited") => ~ScanStarts]_vars

\* 'q' or 'R' was handled while the timer installed by main was running.
C21_Witness ==
    /\ proc = "exited"
    /\ periodicTimer # 0
    /\ periodicTimer \notin activeTimers

\* The scan in slot c has run git add for the repository at hand and has neither committed
\* and pushed nor given the repository up: the pass has not reached its result line.
MidOperation(c) ==
    /\ InFlight(c)
    /\ run[c].pc # "rgt_status"
    /\ run[c].cmds # <<>>

\* C22: when the process exits, no scan cycle is in the middle of a repository operation:
\* an operation that was in flight when 'q' arrived (git add done, git commit or git push
\* not yet ended) has finished first.
C22_InFlightFinishesBeforeExit ==
    proc = "exited" => \A c \in Cycles : ~MidOperation(c)

-----------------------------------------------------------------------------
\* The sync engine on a repository with nothing to synchronize

\* gitCommitAndPush has read both status lines: the working tree is clean and the branch is
\* not ahead of its upstream.
NothingToSynchronize(f) ==
    /\ f.loc.statusOutput # Null
    /\ f.loc.statusBranch # Null
    /\ Len(Trim(f.loc.statusOutput)) = 0
    /\ ~AheadOfUpstream(f.loc.statusBranch)

\* C23: idempotence of NoChanges: a run of the sync engine that finds nothing to
\* synchronize ends as NoChanges and has run no git add, commit, push or pull, so that the
\* repository is as it was and a second run, reading the same status, ends the same way.
C23_NoChangesIdempotent ==
    \A c \in Cycles :
        LET f == run[c]
        IN  JustFinished(f) /\ NothingToSynchronize(f) =>
                /\ LastOutcome(f) = "NoChanges"
                /\ Count(f.cmds, {"git commit -m"}) = 0
                /\ f.cmds = <<>>

-----------------------------------------------------------------------------
\* The summary of a run and the failure reasons

\* The repositories of f from position i on whose pass ended in Failure, in the order in
\* which they were processed.
RECURSIVE FailedFrom(_, _)
FailedFrom(f, i) ==
    IF i > Len(f.outcomes) THEN <<>>
    ELSE IF f.outcomes[i] = "Failure"
    THEN <<f.repositories[i]>> \o FailedFrom(f, i + 1)
    ELSE FailedFrom(f, i + 1)

\* C24: the summary says "fully synchronized" exactly when no repository ended in Failure;
\* otherwise it says that attention is required and lists one entry per failed repository,
\* in processing order, with the repository's name, its path relative to the scan root and
\* a non-empty failure reason.
C24_SummaryVerdict ==
    \A c \in Cycles :
        LET f == run[c]
            failed == FailedFrom(f, 1)
            summary == Summary(f)
        IN  f.pc = "summary" =>
                /\ summary.synchronized <=> Count(f.outcomes, {"Failure"}) = 0
                /\ summary.attention <=> ~summary.synchronized
                /\ Len(summary.entries) = Len(failed)
                /\ \A i \in 1..Len(failed) :
                      /\ summary.entries[i].name = Basename(failed[i])
                      /\ summary.entries[i].path = Relative(failed[i])
                      /\ summary.entries[i].issue # ""

\* A summary that lists two failed repositories.
C24_Witness ==
    \E c \in Cycles :
        /\ run[c].pc = "summary"
        /\ Len(Summary(run[c]).entries) = 2
        /\ Summary(run[c]).entries[1].path # Summary(run[c]).entries[2].path

\* The reasons that name no kind of failure.
GenericReasons ==
    { "Push failed to remote repository", "Repository has unpushed commits",
      "Failed to commit changes", "Unknown error" }

\* The pass of f that has just ended gave the push up: git push -u failed with errorMsg
\* and the repository was listed as failed.
PushGivenUp(f) ==
    /\ JustFinished(f)
    /\ LastOutcome(f) = "Failure"
    /\ f.loc.errorMsg # Null

\* C25: the reason listed for a push that was given up names the kind of the failure: a
\* missing remote repository is listed as "Remote repository not found", a host key
\* failure as an SSH key failure, and a permission or access rights error with a reason
\* that is not one of the generic ones.
C25_ReasonNamesKind ==
    \A c \in Cycles :
        LET f == run[c]
            error == ToLowerCase(f.loc.errorMsg)
            issue == f.failedRepos[Len(f.failedRepos)].issue
        IN  PushGivenUp(f) =>
                /\ Includes(error, "repository not found") => issue = "Remote repository not found"
                /\ Includes(error, "host key verification failed") =>
                      issue \in {"SSH key verification failed", "SSH host key verification failed"}
                /\ Includes(error, "permission denied") \/ Includes(error, "access rights") =>
                      issue \notin GenericReasons

-----------------------------------------------------------------------------
\* Recovery by the advice of the problem-solving oracle

\* The pass of f that has just ended saw git push -u fail with an error that is neither a
\* divergence nor one of the failures that cannot be fixed automatically.
OtherPushFailure(f) ==
    /\ JustFinished(f)
    /\ f.loc.errorMsg # Null
    /\ ~Diverged(f.loc.errorMsg)
    /\ ~NotAutoFixable(f.loc.errorMsg)

\* The problem-solving oracle advised a git pull.
AdvisedToPull(f) ==
    /\ f.loc.aiSolution # Null
    /\ Includes(ToLowerCase(f.loc.aiSolution), "git pull")

\* C26: after a push failure that is neither a divergence nor non-auto-fixable the
\* problem-solving oracle is consulted, and when its suggestion contains "git pull" a git
\* pull is run and the push is retried once.
C26_PullOnAdvice ==
    \A c \in Cycles :
        LET f == run[c]
        IN  OtherPushFailure(f) =>
                /\ \E i \in 1..Len(f.loc.tried) : f.loc.tried[i] = "which gemini"
                /\ AdvisedToPull(f) =>
                      /\ Count(f.cmds, {"git pull"}) = 1
                      /\ Len(f.cmds) >= 2
                      /\ f.cmds[Len(f.cmds) - 1] = "git pull"
                      /\ f.cmds[Len(f.cmds)] = "git push"

-----------------------------------------------------------------------------
\* Remotes

\* The repository that the commands of f.cmds were run in.
RepoOfCmds(f) ==
    IF f.pc \in {"rgt_status", "summary"}
    THEN f.repositories[Len(f.outcomes)]
    ELSE f.repositories[f.idx]

\* C27: a git push is issued only in a repository that has at least one remote: for a
\* repository whose git remote -v prints nothing, no push is among the commands run.
C27_PushOnlyWithRemote ==
    \A c \in Cycles :
        LET f == run[c]
        IN  Count(f.cmds, Pushes) > 0 => Len(Trim(RemoteV(RepoOfCmds(f)))) > 0

-----------------------------------------------------------------------------
\* Oracles that never answer

\* The first scan is working on the repositories it found.
Processing ==
    InFlight(1) /\ run[1].pc # "discover"

\* C28: a scan cycle that has found repositories reaches its summary when every git
\* command ends, although no oracle command need ever answer: every oracle call has a
\* timeout, and the rejection of a timed out call is caught like any other failure.
C28_HungOracleCannotStall ==
    Processing ~> (run[1].pc = "summary")

\* A summary reached after all three problem-solving oracles were tried without a result.
C28_Witness ==
    /\ run[1].pc = "summary"
    /\ run[1].loc.tried = <<"which gemini", "gemini", "which claude", "claude", "which codex", "codex">>
    /\ run[1].loc.aiSolution = Null

-----------------------------------------------------------------------------
\* The order of add, commit and push

\* git commit was run in the pass of f and failed.
CommitHasFailed(f) ==
    ~f.loc.commitError.ok

\* The pass of f has ended after git add alone: git add failed.
AddHasFailed(f) ==
    JustFinished(f) /\ f.cmds = <<"git add .">>

Decided(f) ==
    /\ f.loc.statusOutput # Null
    /\ f.pc # "gcp_statusB"

\* C30: git add and git commit are run exactly when the working tree has uncommitted
\* changes; with a clean tree that is ahead of its upstream git push is run without add or
\* commit; and after a successful commit git push is the next command.
C30_StageIffUncommitted ==
    \A c \in Cycles :
        LET f == run[c]
            cmds == f.cmds
        IN  /\ Decided(f) /\ HasUncommittedChanges(f) => f.pc = "gcp_add" /\ cmds = <<>>
            /\ Decided(f) /\ ~HasUncommittedChanges(f) =>
                  /\ f.pc # "gcp_add"
                  /\ Count(cmds, {"git add .", "git commit -m"}) = 0
                  /\ f.loc.statusBranch # Null /\ AheadOfUpstream(f.loc.statusBranch) =>
                        \/ f.pc = "gcp_push" /\ cmds = <<>>
                        \/ cmds # <<>> /\ cmds[1] = "git push"
            /\ f.pc = "gcp_commit" => cmds = <<"git add .">>
            /\ Count(cmds, {"git add ."}) > 0 /\ InFlight(c) /\ f.pc # "rgt_status" => ~Decided(f)
            /\ cmds = <<"git add .", "git commit -m">> /\ ~CommitHasFailed(f) => f.pc = "gcp_push"

\* A clean working tree that is ahead of its upstream has been pushed: git push is the only
\* command that was run.
C30_Witness ==
    \E c \in Cycles :
        /\ JustFinished(run[c])
        /\ Decided(run[c])
        /\ ~HasUncommittedChanges(run[c])
        /\ AheadOfUpstream(run[c].loc.statusBranch)
        /\ run[c].cmds = <<"git push">>
        /\ LastOutcome(run[c]) = "Success"

-----------------------------------------------------------------------------
\* The push that sets the upstream

\* C31: git push -u origin <branch> is run, or about to be run, only after a plain git
\* push that failed because the branch has no upstream; after a plain push that failed for
\* another reason no push sets the upstream.
C31_UpstreamOnlyWithoutUpstream ==
    \A c \in Cycles :
        LET f == run[c]
        IN  \/ Count(f.cmds, {"git push -u origin"}) > 0
            \/ f.pc \in {"gcp_branch", "gcp_pushU"}
            => NoUpstream(f.loc.pushError.message)

\* The pass of slot c ends in this step.
PassEnds(c) ==
    Len(run'[c].outcomes) = Len(run[c].outcomes) + 1

\* C32: once git push -u has failed, the pass ends as Success exactly when it ends by the
\* plain push that follows a pull of attemptAutoFix that succeeded, and that is the only
\* plain push issued since; a pass that ends anywhere else, in particular on the answer or
\* the silence of askAIForSolution, ends as Failure.
C32_SuccessOnlyByRetriedPush ==
    [][\A c \in Cycles :
          LET f == run[c]
              g == run'[c]
              at == CHOOSE i \in 1..Len(f.cmds) : f.cmds[i] = "git push -u origin"
          IN  Count(f.cmds, {"git push -u origin"}) > 0 /\ PassEnds(c) =>
                  /\ LastOutcome(g) \in {"Success", "Failure"}
                  /\ LastOutcome(g) = "Success" <=>
                        /\ f.pc = "gcp_retryPush"
                        /\ f.loc.fixAttempted
                        /\ f.cmds[Len(f.cmds)] \in Pulls
                        /\ g.cmds = Append(f.cmds, "git push")
                        /\ Count(g.cmds, {"git push"}) = Count(SubSeq(f.cmds, 1, at), {"git push"}) + 1
                  /\ f.pc \in {"ask_which", "ask_run"} => LastOutcome(g) = "Failure"]_vars

\* C32 witness: a pass that has ended as Success by the push retried after a pull, and the
\* push that set the upstream had failed.
C32_Witness ==
    \E c \in Cycles :
        LET f == run[c]
        IN  /\ JustFinished(f)
            /\ LastOutcome(f) = "Success"
            /\ Len(f.cmds) >= 3
            /\ f.cmds[Len(f.cmds) - 2] = "git push -u origin"
            /\ f.cmds[Len(f.cmds) - 1] \in Pulls
            /\ f.cmds[Len(f.cmds)] = "git push"

-----------------------------------------------------------------------------
\* A repository whose status cannot be read

\* The repository that f.cmds and f.loc belong to: the one at hand, or the one just finished.
Current(f) ==
    IF f.pc \in {"rgt_status", "summary"} THEN Len(f.outcomes) ELSE f.idx

\* C33: a repository in which git status keeps failing is not skipped: the error of the
\* inspection is caught, gitCommitAndPushWithDetails is called, and the pass ends with one
\* outcome, Failure, reported by gitCommitAndPush itself; no git add, commit, push or pull
\* is run for it.
C33_UnreadableStatusFails ==
    \A c \in Cycles :
        LET f == run[c]
            IsBroken(i) == Below(f.repositories[i]) \in disk.broken
        IN  /\ Len(f.outcomes) <= Len(f.repositories)
            /\ \A i \in 1..Len(f.outcomes) :
                  IsBroken(i) =>
                      /\ f.outcomes[i] = "Failure"
                      /\ Cardinality({ k \in 1..Len(f.failedRepos) :
                                          /\ f.failedRepos[k].path = Relative(f.repositories[i])
                                          /\ f.failedRepos[k].issue = "Failed to commit changes" }) = 1
            /\ Current(f) \in 1..Len(f.repositories) /\ IsBroken(Current(f)) =>
                  /\ f.cmds = <<>>
                  /\ f.pc \in {"rgt_status", "gcp_status", "summary"}

\* C33 witness: the pass for a repository with an unreadable status has ended.
C33_Witness ==
    \E c \in Cycles :
        LET f == run[c]
        IN  /\ JustFinished(f)
            /\ Below(f.repositories[Len(f.outcomes)]) \in disk.broken
            /\ LastOutcome(f) = "Failure"
            /\ f.cmds = <<>>

-----------------------------------------------------------------------------
\* The periodic timer

\* C34: at most one interval timer is alive at any time, and it is the one periodicTimer
\* refers to: a timer is created only with every other timer cancelled, a reload leaves
\* none behind when the process makes way for the new one, and after 'q' none is alive.
C34_AtMostOneTimer ==
    /\ [](/\ Cardinality(activeTimers) <= 1
          /\ activeTimers \subseteq {periodicTimer}
          /\ proc = "exited" => activeTimers = {})
    /\ [][activeTimers' # activeTimers /\ activeTimers' # {} => activeTimers' = {periodicTimer'}]_vars

\* C34 witness: the process listens with its timer running, and a scan started by the
\* timer or by 'r' is under way.
C34_Witness ==
    /\ proc = "listening"
    /\ activeTimers = {periodicTimer}
    /\ \E c \in Cycles : InFlight(c)

-----------------------------------------------------------------------------
\* The wrapper of console.log

\* C35: whenever no call of gitCommitAndPushWithDetails is in progress, console.log is the
\* logger of Node: every wrapper that a call installed has been taken away again, however
\* the scans of the timer and of 'r' interleave.
C35_WrapperUninstalled ==
    (\A c \in Cycles : ~InDetails(run[c])) => consoleLog = 0

-----------------------------------------------------------------------------
\* The classifier functions, each called on its own

Types == {"main", "submodule", "nested"}

\* The entries the trees of the classifier are built from.
ClassifierEntries ==
    { <<".git">>, <<".gitmodules">>, <<"app", ".git">>, <<"app", ".gitmodules">>,
      <<"lib", ".git">>, <<"vendor", ".git">>, <<".git", ".git">> }

ClassifierTrees ==
    UNION { UNION { { [tree EXCEPT !.unreadable = unreadable] :
                         unreadable \in {{}} \cup { {p} : p \in DirsOf(tree) } } :
                    tree \in { Tree(leaves, "work", {}, order) :
                                 leaves \in { kinds \in [entries -> {"dir", "file"}] :
                                                 \A p \in entries :
                                                     p[Len(p)] = ".gitmodules" => kinds[p] = "file" },
                                 order \in Orders } } :
            entries \in { s \in SUBSET ClassifierEntries : Cardinality(s) <= MaxEntries } }

\* The directories of the tree, as absolute paths.
Directories(d) ==
    { <<d.root>> \o p : p \in DirsOf(d) }

RepoInfos ==
    [ path : { <<"work">>, <<"work", "app">> }, isMonorepo : BOOLEAN, type : Types ]

Call(fn, args) ==
    [ pc |-> "call", fn |-> fn, args |-> args, result |-> Null ]

InitClassifier ==
    /\ proc = "starting"
    /\ periodicTimer = 0
    /\ activeTimers = {}
    /\ run = [c \in Cycles |-> IdleFrame]
    /\ consoleLog = 0
    /\ faults = FALSE
    /\ \/ /\ disk \in ClassifierTrees
          /\ adv \in { Call("findAllGitRepositories", << <<disk.root>> >>) }
                     \cup { Call("checkIsMonorepo", <<repoPath>>) : repoPath \in Directories(disk) }
                     \cup { Call("determineRepoType", <<repoPath, rootDir>>) :
                               repoPath \in Directories(disk), rootDir \in Directories(disk) }
       \/ /\ disk = Nested(0, <<>>)
          /\ \E n \in 0..MaxSort :
                adv \in { Call("sortRepositoriesForProcessing", <<repos>>) :
                             repos \in [1..n -> RepoInfos] }

Returns(fn, result) ==
    /\ adv.pc = "call"
    /\ adv.fn = fn
    /\ adv' = [adv EXCEPT !.pc = "done", !.result = result]
    /\ UNCHANGED <<proc, periodicTimer, activeTimers, run, faults, disk, consoleLog>>

\* The tree does not change during a call; the call is one step.
FindCall ==
    Returns("findAllGitRepositories", FindAllGitRepositories(disk))

CheckIsMonorepoCall ==
    Returns("checkIsMonorepo", CheckIsMonorepo(disk, adv.args[1]))

DetermineRepoTypeCall ==
    Returns("determineRepoType", DetermineRepoType(disk, adv.args[1], adv.args[2]))

SortCall ==
    Returns("sortRepositoriesForProcessing", SortRepositoriesForProcessing(adv.args[1]))

NextClassifier ==
    \/ FindCall
    \/ CheckIsMonorepoCall
    \/ DetermineRepoTypeCall
    \/ SortCall

SpecClassifier == InitClassifier /\ [][NextClassifier]_vars

CallReturned(fn) ==
    adv.pc = "done" /\ adv.fn = fn

\* C36: sortRepositoriesForProcessing returns its records rearranged, none lost and none
\* added, with no nested and no main record before a submodule record and no main record
\* before a nested one.
C36_SortedByKind ==
    CallReturned("sortRepositoriesForProcessing") =>
        LET repos == adv.args[1]
            sorted == adv.result
        IN  /\ Len(sorted) = Len(repos)
            /\ \A r \in RepoInfos :
                  Cardinality({ i \in 1..Len(sorted) : sorted[i] = r })
                      = Cardinality({ i \in 1..Len(repos) : repos[i] = r })
            /\ \A i, j \in 1..Len(sorted) :
                  i < j => /\ sorted[j].type = "submodule" => sorted[i].type = "submodule"
                           /\ sorted[j].type = "nested" => sorted[i].type # "main"

\* C36 witness: an array that starts with a main record and has a nested record before a
\* submodule record has been sorted.
C36_Witness ==
    /\ CallReturned("sortRepositoriesForProcessing")
    /\ Len(adv.args[1]) = 3
    /\ adv.args[1][1].type = "main"
    /\ adv.args[1][2].type = "nested"
    /\ adv.args[1][3].type = "submodule"
    /\ adv.result[1].type = "submodule"

\* C37: determineRepoType answers main when the path is the scan root; for another path
\* it answers submodule when the entry .git of the path is a regular file, and nested in
\* every other case; the records of findAllGitRepositories carry that answer.
C37_KindOfRepository ==
    /\ CallReturned("determineRepoType") =>
          LET repoPath == adv.args[1]
              rootDir == adv.args[2]
              git == Below(repoPath) \o <<".git">>
              gitIsFile == git \in DOMAIN disk.kind /\ disk.kind[git] = "file"
          IN  /\ adv.result \in Types
              /\ adv.result = "main" <=> repoPath = rootDir
              /\ adv.result = "submodule" <=> repoPath # rootDir /\ gitIsFile
              /\ adv.result = "nested" <=> repoPath # rootDir /\ ~gitIsFile
    /\ CallReturned("findAllGitRepositories") =>
          \A i \in 1..Len(adv.result) :
              LET repo == adv.result[i]
                  git == Below(repo.path) \o <<".git">>
              IN  repo.type = IF repo.path = adv.args[1] THEN "main"
                              ELSE IF disk.kind[git] = "file" THEN "submodule"
                              ELSE "nested"

\* C37 witness: a path below the scan root whose .git is a file has been classified.
C37_Witness ==
    /\ CallReturned("determineRepoType")
    /\ adv.args[1] # adv.args[2]
    /\ adv.args[2] = <<disk.root>>
    /\ (Below(adv.args[1]) \o <<".git">>) \in DOMAIN disk.kind
    /\ disk.kind[Below(adv.args[1]) \o <<".git">>] = "file"
    /\ adv.result = "submodule"

\* C38: checkIsMonorepo answers true exactly when the repository has an entry .gitmodules,
\* or when its directory can be read and one of its child directories other than .git has
\* an entry .git, be that a file or a directory; it answers false for a directory that
\* cannot be read and has no .gitmodules.
C38_MonorepoDetection ==
    CallReturned("checkIsMonorepo") =>
        LET repoPath == Below(adv.args[1])
            gitmodules == (repoPath \o <<".gitmodules">>) \in DOMAIN disk.kind
            children == { p \in DOMAIN disk.kind :
                             /\ Len(p) = Len(repoPath) + 1
                             /\ IsPrefix(repoPath, p)
                             /\ disk.kind[p] = "dir"
                             /\ p[Len(p)] # ".git" }
            nested == \E p \in children : (p \o <<".git">>) \in DOMAIN disk.kind
        IN  /\ adv.result \in BOOLEAN
            /\ adv.result <=> gitmodules \/ (repoPath \notin disk.unreadable /\ nested)
            /\ repoPath \in disk.unreadable /\ ~gitmodules => adv.result = FALSE

\* C38 witness: a repository without .gitmodules that has a child directory with a .git
\* file has been found to be a monorepo.
C38_Witness ==
    /\ CallReturned("checkIsMonorepo")
    /\ adv.result = TRUE
    /\ (Below(adv.args[1]) \o <<".gitmodules">>) \notin DOMAIN disk.kind
    /\ \E name \in {"app", "lib"} :
          /\ (Below(adv.args[1]) \o <<name, ".git">>) \in DOMAIN disk.kind
          /\ disk.kind[Below(adv.args[1]) \o <<name, ".git">>] = "file"

-----------------------------------------------------------------------------
(* The advanced processing (src/unnamed/part_000): runGitTasks sorts the    *)
(* records of findAllGitRepositories and calls processRepositoryAdvanced    *)
(* on each, one await at a time.                                            *)

\* log[i] holds the git commands run for processOrder[i] that change the repository or
\* talk to its remote, each with its success; outcomes[i] says how
\* processRepositoryAdvanced returned for it.
AdvancedFrame ==
    [ pc |-> "discover", processOrder |-> <<>>, idx |-> 0,
      log |-> <<>>, outcomes |-> <<>>, commitMessage |-> Null ]

Repo(a) ==
    a.processOrder[a.idx]

ExecAdvanced(a, command, r) ==
    [a EXCEPT !.log[a.idx] = Append(@, [command |-> command, ok |-> r.ok])]

\* processRepositoryAdvanced(repo) up to its first await
EnterAdvanced(a) ==
    [a EXCEPT !.log = Append(@, <<>>),
              !.pc = IF Repo(a).isMonorepo THEN "sync_access" ELSE "has_status"]

\* processRepositoryAdvanced has returned; the for loop of runGitTasks goes on.
ReturnAdvanced(a, outcome) ==
    LET done == [a EXCEPT !.outcomes = Append(@, outcome), !.commitMessage = Null]
    IN  IF a.idx < Len(a.processOrder)
        THEN EnterAdvanced([done EXCEPT !.idx = @ + 1])
        ELSE [done EXCEPT !.pc = "returned"]

\* A processRepositoryAdvanced that goes on after a failed sync.
SyncDoneRegardless(a, synced) ==
    [a EXCEPT !.pc = "has_status"]

\* syncSubmodules has returned: if (!await syncSubmodules(repo.path)) { ...; return; }
SyncDone(a, synced) ==
    IF synced THEN [a EXCEPT !.pc = "has_status"] ELSE ReturnAdvanced(a, "skipped")

\* gitCommit has returned: gitRepoHasRemote is called.
CommitDone(a) ==
    [a EXCEPT !.commitMessage = Null, !.pc = "remote"]

\* The trees of the advanced processing: repositories at the scan root, in app and in lib,
\* each with or without a .gitmodules file.
AdvancedTrees ==
    UNION { { Tree([ p \in { r \o <<".git">> : r \in repos }
                             \cup { r \o <<".gitmodules">> : r \in modules } |->
                         IF p[Len(p)] = ".git" THEN "dir" ELSE "file" ],
                   "work", {}, order) :
                 modules \in SUBSET repos, order \in Orders } :
            repos \in { s \in SUBSET { <<>>, <<"app">>, <<"lib">> } : Cardinality(s) <= MaxAdvanced } }

InitAdvanced ==
    /\ proc = "starting"
    /\ periodicTimer = 0
    /\ activeTimers = {}
    /\ run = [c \in Cycles |-> IdleFrame]
    /\ consoleLog = 0
    /\ faults = TRUE
    /\ disk \in AdvancedTrees
    /\ adv = AdvancedFrame

AtAdvanced(site) ==
    adv.pc = site

BecomesAdvanced(a) ==
    /\ adv' = a
    /\ UNCHANGED <<proc, periodicTimer, activeTimers, run, faults, disk, consoleLog>>

\* runGitTasks: the discovery, the list, the sort, and the first call of
\* processRepositoryAdvanced up to its first await.
DiscoverAdvanced ==
    /\ AtAdvanced("discover")
    /\ LET repositories == FindAllGitRepositories(disk)
       IN  BecomesAdvanced(IF Len(repositories) = 0
                           THEN [adv EXCEPT !.pc = "returned"]
                           ELSE EnterAdvanced([adv EXCEPT
                                   !.processOrder = SortRepositoriesForProcessing(repositories),
                                   !.idx = 1]))

\* syncSubmodules: fs.access(gitmodulesPath); without the file there is nothing to sync.
SyncAccess ==
    /\ AtAdvanced("sync_access")
    /\ BecomesAdvanced(IF Access(disk, Join(Repo(adv).path, ".gitmodules"))
                       THEN [adv EXCEPT !.pc = "sync_update"]
                       ELSE SyncDone(adv, TRUE))

SyncUpdate ==
    /\ AtAdvanced("sync_update")
    /\ \E r \in Answers(PlainResults) :
          LET a == ExecAdvanced(adv, "git submodule update --remote --merge", r)
          IN  BecomesAdvanced(IF r.ok THEN [a EXCEPT !.pc = "sync_add"] ELSE SyncDone(a, FALSE))

SyncAdd ==
    /\ AtAdvanced("sync_add")
    /\ \E r \in Answers(PlainResults) :
          BecomesAdvanced(SyncDone(ExecAdvanced(adv, "git add .", r), r.ok))

\* hasChanges: git status --porcelain; an error counts as no changes.  With changes
\* gitCommit is called and runs up to its fs.stat.
HasChanges ==
    /\ AtAdvanced("has_status")
    /\ \E r \in Answers(StatusResults) :
          BecomesAdvanced(IF r.ok /\ Len(Trim(r.stdout)) > 0
                          THEN [adv EXCEPT !.pc = "gc_stat"]
                          ELSE ReturnAdvanced(adv, "no-changes"))

\* gitCommit: fs.stat(gitPath); without the entry gitCommit returns.
CommitStat ==
    /\ AtAdvanced("gc_stat")
    /\ BecomesAdvanced(IF Access(disk, Join(Repo(adv).path, ".git"))
                       THEN [adv EXCEPT !.pc = "gc_sparse"]
                       ELSE CommitDone(adv))

\* gitCommit: fs.access(sparseCheckoutPath); the answer is only printed.
CommitSparse ==
    /\ AtAdvanced("gc_sparse")
    /\ BecomesAdvanced([adv EXCEPT !.pc = "gc_status"])

\* gitCommit: git status --porcelain; an error is caught by the outer catch.
CommitStatus ==
    /\ AtAdvanced("gc_status")
    /\ \E r \in Answers(StatusResults) :
          BecomesAdvanced(IF r.ok /\ Len(Trim(r.stdout)) > 0
                          THEN [adv EXCEPT !.pc = "gc_add"]
                          ELSE CommitDone(adv))

CommitAdd ==
    /\ AtAdvanced("gc_add")
    /\ \E r \in Answers(PlainResults), now \in Instants :
          LET a == ExecAdvanced(adv, "git add .", r)
          IN  BecomesAdvanced(IF r.ok
                              THEN [a EXCEPT !.commitMessage = <<"Auto-commit by git_runner at " \o now>>,
                                             !.pc = "ai_available"]
                              ELSE CommitDone(a))

\* isAIAgentAvailable looks for the agent and runs it with --check-models; it catches
\* every error and answers true or false.
IsAIAgentAvailable ==
    /\ AtAdvanced("ai_available")
    /\ \E available \in BOOLEAN :
          BecomesAdvanced([adv EXCEPT !.pc = IF available THEN "ai_generate" ELSE "gc_commit"])

\* generateCommitMessageWithAI reads the status and the diff and runs the agent; it catches
\* every error and answers the trimmed output of the agent, or null.
GenerateCommitMessageAdvanced ==
    /\ AtAdvanced("ai_generate")
    /\ \E r \in Answers(OracleResults) :
          LET aiCommitMessage == IF r.ok /\ Truthy(Trim(r.stdout)) THEN Trim(r.stdout) ELSE Null
          IN  BecomesAdvanced([adv EXCEPT
                  !.commitMessage = IF Truthy(aiCommitMessage) /\ Truthy(Trim(aiCommitMessage))
                                    THEN aiCommitMessage ELSE @,
                  !.pc = "gc_commit"])

\* git commit -m: its error is printed by the inner catch.
CommitCommit ==
    /\ AtAdvanced("gc_commit")
    /\ \E r \in Answers(CommitResults) :
          BecomesAdvanced(CommitDone(ExecAdvanced(adv, "git commit -m", r)))

\* git remote of gitRepoHasRemote
RemoteResults ==
    { Ok(<<>>), Ok(<<"origin">>), Err(<<"Command failed: git remote">>, <<>>) }

\* gitRepoHasRemote; with a remote gitPush is called and runs up to its first await.
RepoHasRemote ==
    /\ AtAdvanced("remote")
    /\ \E r \in Answers(RemoteResults) :
          BecomesAdvanced(IF r.ok /\ Len(Trim(r.stdout)) > 0
                          THEN [adv EXCEPT !.pc = "push_upstream"]
                          ELSE ReturnAdvanced(adv, "done"))

\* gitPush: git rev-parse --abbrev-ref --symbolic-full-name @{u}
PushUpstream ==
    /\ AtAdvanced("push_upstream")
    /\ \E r \in Answers(PlainResults) :
          BecomesAdvanced([adv EXCEPT !.pc = IF r.ok THEN "push_plain" ELSE "push_head"])

\* gitPush: git push; its error is caught like that of the rev-parse before it.
PushPlain ==
    /\ AtAdvanced("push_plain")
    /\ \E r \in Answers(PlainPushResults) :
          LET a == ExecAdvanced(adv, "git push", r)
          IN  BecomesAdvanced(IF r.ok THEN ReturnAdvanced(a, "done") ELSE [a EXCEPT !.pc = "push_head"])

\* gitPush: git rev-parse --abbrev-ref HEAD
PushHead ==
    /\ AtAdvanced("push_head")
    /\ \E r \in Answers(BranchNameResults) :
          BecomesAdvanced(IF r.ok THEN [adv EXCEPT !.pc = "push_set"] ELSE ReturnAdvanced(adv, "done"))

\* gitPush: git push --set-upstream origin <branch>; its error is printed.
PushSetUpstream ==
    /\ AtAdvanced("push_set")
    /\ \E r \in Answers(PlainResults) :
          BecomesAdvanced(ReturnAdvanced(ExecAdvanced(adv, "git push --set-upstream origin", r), "done"))

NextAdvanced ==
    \/ DiscoverAdvanced
    \/ SyncAccess \/ SyncUpdate \/ SyncAdd
    \/ HasChanges
    \/ CommitStat \/ CommitSparse \/ CommitStatus \/ CommitAdd
    \/ IsAIAgentAvailable \/ GenerateCommitMessageAdvanced \/ CommitCommit
    \/ RepoHasRemote
    \/ PushUpstream \/ PushPlain \/ PushHead \/ PushSetUpstream

SpecAdvanced == InitAdvanced /\ [][NextAdvanced]_vars

SyncCommands == {"git submodule update --remote --merge", "git add ."}

\* The sync of the repository at position i of the processing order has failed: git
\* submodule update, or the git add behind it.
SyncHasFailed(a, i) ==
    LET log == a.log[i]
    IN  /\ Len(log) >= 1
        /\ log[1].command = "git submodule update --remote --merge"
        /\ ~log[1].ok \/ (Len(log) >= 2 /\ ~log[2].ok)

\* C39: a monorepo whose submodule sync has failed is skipped: processRepositoryAdvanced
\* returns for it at once, with no git commit and no git push run, and the loop goes on
\* with the repository behind it in the processing order; the scan returns only when
\* processRepositoryAdvanced has returned for every record.
C39_FailedSyncSkipsRepository ==
    /\ \A i \in 1..Len(adv.log) :
          SyncHasFailed(adv, i) =>
              /\ adv.processOrder[i].isMonorepo
              /\ \A k \in 1..Len(adv.log[i]) : adv.log[i][k].command \in SyncCommands
              /\ i <= Len(adv.outcomes)
              /\ adv.outcomes[i] = "skipped"
              /\ i < Len(adv.processOrder) => Len(adv.log) > i
    /\ \A i \in 1..Len(adv.outcomes) :
          adv.outcomes[i] = "skipped" => SyncHasFailed(adv, i)
    /\ adv.pc = "returned" =>
          Len(adv.outcomes) = Len(adv.processOrder) /\ Len(adv.log) = Len(adv.processOrder)
    /\ adv.pc \notin {"discover", "returned"} =>
          Len(adv.outcomes) = adv.idx - 1 /\ Len(adv.log) = adv.idx

\* C39 witness: the sync of the first repository in the processing order has failed, and
\* the repository behind it has been committed.
C39_Witness ==
    /\ Len(adv.log) >= 2
    /\ SyncHasFailed(adv, 1)
    /\ \E k \in 1..Len(adv.log[2]) : adv.log[2][k].command = "git commit -m"

====
